---------------------------- MODULE Spec2Model ----------------------------
(***************************************************************************)
(* EEPROMRecordClass of ModemMonitor: the circular outage log kept in the  *)
(* Arduino's on-board EEPROM.  The EEPROM is an array of bytes, divided    *)
(* into 8-byte records; byte 7 of a record is its flags byte.  The class   *)
(* keeps one cursor, _modemRecordIndex, and one RAM image of a record,     *)
(* EEPROMBlock.  Operations that write the EEPROM are modelled one byte    *)
(* write (EEPROM.update) per step, so that the states between two byte     *)
(* writes are states of the model; the scans only read the EEPROM and are  *)
(* one step each.                                                          *)
(***************************************************************************)
EXTENDS Integers, Sequences, FiniteSets, TLC

\* ------------------------------------------------------------------ sizes

\* Number of 8-byte records of the EEPROM (EEPROM.length()/sizeof(EEPROMRecord_t)).
NumRecords == 4

\* How many setEEPROMUptimeStats calls, clearLog calls and restarts (power
\* losses), taken together, a behaviour may contain.
MaxOther == 1

\* sizeof(EEPROMRecord_t)
RECORD_SIZE == 8

MODEM_RECORD_COMPLETE == 1

MODEM_RECORD_IN_PROGRESS == 2

MODEM_RECORD_UNUSED == 255

\* EEPROM.length()
EEPROMLength == NumRecords * RECORD_SIZE

\* completeLogEntry calls in one behaviour: enough to wrap the ring and
\* overwrite three more records.
MaxCalls == NumRecords + 3

Slots == 0 .. (NumRecords - 1)

Addrs == 0 .. (EEPROMLength - 1)

\* The working records (struct modemRecord_t) the callers pass in.  A
\* uint32_t is written <<high 16 bits, low 16 bits>>.
Records ==
  { [secsSince1900 |-> <<0, 100>>, downMins |-> 0],
    [secsSince1900 |-> <<0, 200>>, downMins |-> 5] }

\* The record found in the slots of an EEPROM that was written before the
\* first power up: 0x0001012C seconds (its second byte is 0x01), 261 minutes.
Stored == [secsSince1900 |-> <<1, 300>>, downMins |-> 261]

\* The flags bytes found in such an EEPROM: the three the class writes and
\* one it never writes.
FlagValues == {MODEM_RECORD_COMPLETE, MODEM_RECORD_IN_PROGRESS, MODEM_RECORD_UNUSED, 0}

\* --------------------------------------------------------- integer widths

\* unsigned int (16 bit on the AVR) arithmetic
U16(x) == x % 65536

\* conversion of an unsigned int to int (16 bit, two's complement)
ToInt(x) == IF U16(x) >= 32768 THEN U16(x) - 65536 ELSE U16(x)

\* the comparison  int >= uint16_t : the int is converted to unsigned
GeqU(i, u) == U16(i) >= u

\* ------------------------------------------------------------------ codec

\* A uint32_t is held as <<high 16 bits, low 16 bits>>: the model checker's
\* integers are 32 bit signed and cannot hold one.
UInt32(hi, lo) == <<hi, lo>>

\* (x >> 8*k) & 0xff of a uint32_t, k in 0..3
Byte32(x, k) ==
  IF k = 3 THEN (x[1] \div 256) % 256
  ELSE IF k = 2 THEN x[1] % 256
  ELSE IF k = 1 THEN (x[2] \div 256) % 256
  ELSE x[2] % 256

\* (x >> 8*k) & 0xff of a uint16_t, k in 0..1
Byte16(x, k) == IF k = 1 THEN (x \div 256) % 256 ELSE x % 256

\* ((uint32_t)b4 << 24) + ((uint32_t)b3 << 16) + ((uint32_t)b2 << 8) + b1
Sum32(b4, b3, b2, b1) == UInt32((b4 * 256 + b3) % 65536, (b2 * 256 + b1) % 65536)

\* The RAM image EEPROMBlock is a sequence of 8 bytes, in the order of the
\* members of struct EEPROMRecord_t.
ZeroBlock == <<0, 0, 0, 0, 0, 0, 0, 0>>

convertToEEPROMBlock(block, src) ==
  << Byte32(src.secsSince1900, 3), Byte32(src.secsSince1900, 2),
     Byte32(src.secsSince1900, 1), Byte32(src.secsSince1900, 0),
     Byte16(src.downMins, 1), Byte16(src.downMins, 0),
     block[7], MODEM_RECORD_COMPLETE >>

\* the decoding that takes the bytes least significant first
convertFromEEPROMBlockLSBFirst(block) ==
  [ secsSince1900 |-> Sum32(block[4], block[3], block[2], block[1]),
    downMins |-> (block[6] * 256 + block[5]) % 65536 ]

convertFromEEPROMBlock(block) ==
  [ secsSince1900 |-> Sum32(block[1], block[2], block[3], block[4]),
    downMins |-> (block[5] * 256 + block[6]) % 65536 ]

\* ----------------------------------------------------------------- EEPROM

\* EEPROM.get(addr, flags) of one byte.  The address register of the device
\* holds only the bits of an address inside the array.
EEPROMget(E, addr) == E[addr % EEPROMLength]

\* EEPROM.update(addr, val)
EEPROMupdate(E, addr, val) == [E EXCEPT ![addr % EEPROMLength] = val]

\* EEPROM.get(ind, EEPROMBlock): the 8 bytes from ind
getDataFromIndex(E, ind) == [k \in 1 .. 8 |-> EEPROMget(E, ind + k - 1)]

FlagsOf(E, s) == E[s * RECORD_SIZE + 7]

\* the record value a slot's bytes 0..5 hold
SlotRecord(E, s) == convertFromEEPROMBlock(getDataFromIndex(E, s * RECORD_SIZE))

CompleteSlots(E) == {s \in Slots : FlagsOf(E, s) = MODEM_RECORD_COMPLETE}

InProgressSlots(E) == {s \in Slots : FlagsOf(E, s) = MODEM_RECORD_IN_PROGRESS}

\* ------------------------------------------------------------------ scans
\* A scan is an operator from the EEPROM content E and the cursor idx
\* (_modemRecordIndex) to [ret |-> the value returned, idx |-> the cursor
\* left, reads |-> the number of flags bytes it has read with EEPROM.get].

\* the result r of the rest of a scan, after n more reads of a flags byte
Read(r, n) == [r EXCEPT !.reads = @ + n]

\* getIndexOfNextCompletedRecord moving the cursor whether or not the next
\* record is completed.
getIndexOfNextCompletedRecordAdvancing(E, idx) ==
  LET i0 == ToInt(idx + RECORD_SIZE)
      i  == IF GeqU(i0, EEPROMLength) THEN 0 ELSE i0
  IN  IF EEPROMget(E, i + 7) = MODEM_RECORD_COMPLETE
        THEN [ret |-> i, idx |-> i, reads |-> 1]
        ELSE [ret |-> -1, idx |-> i, reads |-> 1]

getIndexOfNextCompletedRecord(E, idx) ==
  LET i0 == ToInt(idx + RECORD_SIZE)
      i  == IF GeqU(i0, EEPROMLength) THEN 0 ELSE i0
  IN  IF EEPROMget(E, i + 7) = MODEM_RECORD_COMPLETE
        THEN [ret |-> i, idx |-> i, reads |-> 1]
        ELSE [ret |-> -1, idx |-> idx, reads |-> 1]

\* getIndexOfPrevCompletedRecord without the wrap from the first record to
\* the last: before the first record there is none.
getIndexOfPrevCompletedRecordNoWrap(E, idx) ==
  LET i == ToInt(idx - RECORD_SIZE)
  IN  IF i >= 0 /\ EEPROMget(E, i + 7) = MODEM_RECORD_COMPLETE
        THEN [ret |-> i, idx |-> i, reads |-> 1]
        ELSE [ret |-> -1, idx |-> idx, reads |-> 1]

getIndexOfPrevCompletedRecord(E, idx) ==
  LET i0 == ToInt(idx - RECORD_SIZE)
      i  == IF i0 < 0 THEN ToInt(U16(i0) + EEPROMLength) ELSE i0
  IN  IF EEPROMget(E, i + 7) = MODEM_RECORD_COMPLETE
        THEN [ret |-> i, idx |-> i, reads |-> 1]
        ELSE [ret |-> -1, idx |-> idx, reads |-> 1]

getNextCompletedRecord(E, idx) ==
  LET r == getIndexOfNextCompletedRecord(E, idx)
  IN  IF r.ret < 0 THEN [ret |-> -1, idx |-> r.idx, reads |-> r.reads]
      ELSE IF EEPROMget(E, r.ret + 7) = MODEM_RECORD_COMPLETE
        THEN [ret |-> r.ret, idx |-> r.ret, reads |-> r.reads + 1]
        ELSE [ret |-> -1, idx |-> r.idx, reads |-> r.reads + 1]

\* RecordInProgressLoop giving up one probe earlier (count < numRecords).
RECURSIVE RecordInProgressLoopShort(_, _, _, _, _)
RecordInProgressLoopShort(E, i, flags, count, idx) ==
  IF flags # MODEM_RECORD_IN_PROGRESS /\ count < NumRecords
    THEN LET i0 == ToInt(i + RECORD_SIZE)
             i1 == IF GeqU(i0, EEPROMLength) THEN ToInt(U16(i0) - EEPROMLength) ELSE i0
         IN  Read(RecordInProgressLoopShort(E, i1, EEPROMget(E, i1 + 7), count + 1, i), 1)
    ELSE IF count >= NumRecords
           THEN [ret |-> -1, idx |-> idx, reads |-> 0]
           ELSE [ret |-> i, idx |-> i, reads |-> 0]

\* RecordInProgressLoop giving up one probe later (count <= numRecords + 1).
RECURSIVE RecordInProgressLoopLong(_, _, _, _, _)
RecordInProgressLoopLong(E, i, flags, count, idx) ==
  IF flags # MODEM_RECORD_IN_PROGRESS /\ count <= NumRecords + 1
    THEN LET i0 == ToInt(i + RECORD_SIZE)
             i1 == IF GeqU(i0, EEPROMLength) THEN ToInt(U16(i0) - EEPROMLength) ELSE i0
         IN  Read(RecordInProgressLoopLong(E, i1, EEPROMget(E, i1 + 7), count + 1, i), 1)
    ELSE IF count > NumRecords + 1
           THEN [ret |-> -1, idx |-> idx, reads |-> 0]
           ELSE [ret |-> i, idx |-> i, reads |-> 0]

\* The while loop of getRecordInProgress, entered with the loop variables
\* i, flags and count and the cursor idx.
RECURSIVE RecordInProgressLoop(_, _, _, _, _)
RecordInProgressLoop(E, i, flags, count, idx) ==
  IF flags # MODEM_RECORD_IN_PROGRESS /\ count <= NumRecords
    THEN LET i0 == ToInt(i + RECORD_SIZE)
             i1 == IF GeqU(i0, EEPROMLength) THEN ToInt(U16(i0) - EEPROMLength) ELSE i0
         IN  Read(RecordInProgressLoop(E, i1, EEPROMget(E, i1 + 7), count + 1, i), 1)
    ELSE IF count > NumRecords
           THEN [ret |-> -1, idx |-> idx, reads |-> 0]
           ELSE [ret |-> i, idx |-> i, reads |-> 0]

\* getRecordInProgress with the search started at the cursor, not at the
\* start of the EEPROM.
getRecordInProgressFromCursor(E, idx) ==
  Read(RecordInProgressLoop(E, idx, EEPROMget(E, idx + 7), 0, idx), 1)

getRecordInProgress(E, idx) ==
  Read(RecordInProgressLoop(E, 0, EEPROMget(E, 7), 0, idx), 1)

\* OldestSecondLoop without the wrap to index 0: the search stops at the end
\* of the EEPROM.
RECURSIVE OldestSecondLoopNoWrap(_, _, _, _, _)
OldestSecondLoopNoWrap(E, i, flags, count, idx) ==
  IF count <= NumRecords /\ flags # MODEM_RECORD_COMPLETE
    THEN LET i1 == ToInt(i + RECORD_SIZE)
         IN  IF GeqU(i1, EEPROMLength)
               THEN [ret |-> -1, idx |-> idx, reads |-> 0]
               ELSE Read(OldestSecondLoopNoWrap(E, i1, EEPROMget(E, i1 + 7), count + 1, idx), 1)
    ELSE IF count <= NumRecords
           THEN [ret |-> i, idx |-> i, reads |-> 0]
           ELSE [ret |-> -1, idx |-> idx, reads |-> 0]

\* OldestSecondLoop looking at every record twice (count <= 2*numRecords).
RECURSIVE OldestSecondLoopTwice(_, _, _, _, _)
OldestSecondLoopTwice(E, i, flags, count, idx) ==
  IF count <= 2 * NumRecords /\ flags # MODEM_RECORD_COMPLETE
    THEN LET i0 == ToInt(i + RECORD_SIZE)
             i1 == IF GeqU(i0, EEPROMLength) THEN 0 ELSE i0
         IN  Read(OldestSecondLoopTwice(E, i1, EEPROMget(E, i1 + 7), count + 1, idx), 1)
    ELSE IF count <= 2 * NumRecords
           THEN [ret |-> i, idx |-> i, reads |-> 0]
           ELSE [ret |-> -1, idx |-> idx, reads |-> 0]

\* The second loop of getOldestCompletedRecord: forward from the record in
\* progress to the first completed record.
RECURSIVE OldestSecondLoop(_, _, _, _, _)
OldestSecondLoop(E, i, flags, count, idx) ==
  IF count <= NumRecords /\ flags # MODEM_RECORD_COMPLETE
    THEN LET i0 == ToInt(i + RECORD_SIZE)
             i1 == IF GeqU(i0, EEPROMLength) THEN 0 ELSE i0
         IN  Read(OldestSecondLoop(E, i1, EEPROMget(E, i1 + 7), count + 1, idx), 1)
    ELSE IF count <= NumRecords
           THEN [ret |-> i, idx |-> i, reads |-> 0]
           ELSE [ret |-> -1, idx |-> idx, reads |-> 0]

\* The first loop of getOldestCompletedRecord.  Its local variable count is
\* read before it is ever assigned: count0 is the value it happens to hold.
RECURSIVE OldestFirstLoop(_, _, _, _, _)
OldestFirstLoop(E, i, flags, count0, idx) ==
  IF flags # MODEM_RECORD_IN_PROGRESS /\ count0 <= NumRecords
    THEN LET i1 == ToInt(i + RECORD_SIZE)
         IN  IF GeqU(i1 + 7, EEPROMLength)
               THEN [ret |-> -1, idx |-> i, reads |-> 0]
               ELSE Read(OldestFirstLoop(E, i1, EEPROMget(E, i1 + 7), count0, i), 1)
    ELSE IF count0 > NumRecords
           THEN [ret |-> -1, idx |-> idx, reads |-> 0]
           ELSE OldestSecondLoop(E, i, flags, 1, idx)

getOldestCompletedRecord(E, idx, count0) ==
  Read(OldestFirstLoop(E, 0, EEPROMget(E, 7), count0, idx), 1)

\* The values the unassigned local count of getOldestCompletedRecord may
\* hold.  The code only compares it with numRecords, so one value on each
\* side of that comparison stands for every value an int can hold.
UninitCounts == {0, NumRecords + 1}

\* The second loop of getNewestCompletedRecord.  It reads the next flags
\* from i+1, the second byte of the record, not from i+7.
RECURSIVE NewestSecondLoop(_, _, _, _, _)
NewestSecondLoop(E, i, flags, count, idx) ==
  IF count <= NumRecords /\ flags = MODEM_RECORD_COMPLETE
    THEN LET r == getIndexOfNextCompletedRecord(E, i)
         IN  IF r.ret < 0
               THEN [ret |-> i, idx |-> i, reads |-> r.reads]
               ELSE Read(NewestSecondLoop(E, r.ret, EEPROMget(E, r.ret + 1), count + 1, r.idx),
                         r.reads + 1)
    ELSE [ret |-> idx, idx |-> idx, reads |-> 0]

\* NewestFirstLoop without its assignment _modemRecordIndex = i: the cursor
\* stays where the caller left it.
NewestFirstLoopKeepsCursor(E, i, flags, count, idx) ==
  IF flags # MODEM_RECORD_COMPLETE /\ count <= NumRecords
    THEN LET r == getIndexOfNextCompletedRecord(E, idx)
         IN  IF r.ret < 0
               THEN [ret |-> idx, idx |-> idx, reads |-> r.reads]
               ELSE Read(NewestSecondLoop(E, r.ret, EEPROMget(E, r.ret + 7), 0, r.idx),
                         r.reads + 1)
    ELSE NewestSecondLoop(E, i, flags, 0, idx)

RECURSIVE NewestFirstLoop(_, _, _, _, _)
NewestFirstLoop(E, i, flags, count, idx) ==
  IF flags # MODEM_RECORD_COMPLETE /\ count <= NumRecords
    THEN LET r == getIndexOfNextCompletedRecord(E, i)
         IN  IF r.ret < 0
               THEN [ret |-> i, idx |-> i, reads |-> r.reads]
               ELSE Read(NewestFirstLoop(E, r.ret, EEPROMget(E, r.ret + 7), count + 1, r.idx),
                         r.reads + 1)
    ELSE IF count > NumRecords
           THEN [ret |-> -1, idx |-> idx, reads |-> 0]
           ELSE NewestSecondLoop(E, i, flags, 0, idx)

getNewestCompletedRecord(E, idx) ==
  Read(NewestFirstLoop(E, 0, EEPROMget(E, 7), 0, idx), 1)

\* UptimeStatsLoop stopping one record before the end of the EEPROM: the
\* last slot is never looked at.
RECURSIVE UptimeStatsLoopShort(_, _, _)
UptimeStatsLoopShort(E, idx, flags) ==
  IF flags # MODEM_RECORD_IN_PROGRESS /\ idx + 7 + RECORD_SIZE < EEPROMLength
    THEN LET idx1 == U16(idx + RECORD_SIZE)
         IN  UptimeStatsLoopShort(E, idx1,
               IF idx1 + 7 + RECORD_SIZE < EEPROMLength THEN EEPROMget(E, idx1 + 7) ELSE flags)
    ELSE IF flags # MODEM_RECORD_IN_PROGRESS THEN 0 ELSE idx

\* The search of setEEPROMUptimeStats for the record in progress: the cursor
\* it writes at.
RECURSIVE UptimeStatsLoop(_, _, _)
UptimeStatsLoop(E, idx, flags) ==
  IF flags # MODEM_RECORD_IN_PROGRESS /\ idx + 7 < EEPROMLength
    THEN LET idx1 == U16(idx + RECORD_SIZE)
         IN  UptimeStatsLoop(E, idx1,
               IF idx1 + 7 < EEPROMLength THEN EEPROMget(E, idx1 + 7) ELSE flags)
    ELSE IF flags # MODEM_RECORD_IN_PROGRESS THEN 0 ELSE idx

\* The flags bytes the search of setEEPROMUptimeStats reads after the first.
RECURSIVE UptimeStatsLoopReads(_, _, _)
UptimeStatsLoopReads(E, idx, flags) ==
  IF flags # MODEM_RECORD_IN_PROGRESS /\ idx + 7 < EEPROMLength
    THEN LET idx1 == U16(idx + RECORD_SIZE)
         IN  IF idx1 + 7 < EEPROMLength
               THEN 1 + UptimeStatsLoopReads(E, idx1, EEPROMget(E, idx1 + 7))
               ELSE UptimeStatsLoopReads(E, idx1, flags)
    ELSE 0

setEEPROMUptimeStatsReads(E) == 1 + UptimeStatsLoopReads(E, 0, EEPROMget(E, 7))

\* setEEPROMUptimeStatsIndex without the search: the record is always
\* written at the first record position.
setEEPROMUptimeStatsIndexZero(E) == 0

setEEPROMUptimeStatsIndex(E) == UptimeStatsLoop(E, 0, EEPROMget(E, 7))

\* UptimeStatsFind stopping one record before the end of the EEPROM: the
\* last slot is never looked at.
RECURSIVE UptimeStatsFindShort(_, _)
UptimeStatsFindShort(E, i) ==
  IF i + 7 + RECORD_SIZE < EEPROMLength
    THEN IF EEPROMget(E, i + 7) = MODEM_RECORD_IN_PROGRESS
           THEN i
           ELSE UptimeStatsFindShort(E, i + RECORD_SIZE)
    ELSE -1

\* getEEPROMUptimeStats: the index i its search ends with, -1 when the
\* search finds no record in progress.
RECURSIVE UptimeStatsFind(_, _)
UptimeStatsFind(E, i) ==
  IF i + 7 < EEPROMLength
    THEN IF EEPROMget(E, i + 7) = MODEM_RECORD_IN_PROGRESS
           THEN i
           ELSE UptimeStatsFind(E, i + RECORD_SIZE)
    ELSE -1

\* The flags bytes getEEPROMUptimeStats reads from index i on.
RECURSIVE getEEPROMUptimeStatsReads(_, _)
getEEPROMUptimeStatsReads(E, i) ==
  IF i + 7 < EEPROMLength
    THEN IF EEPROMget(E, i + 7) = MODEM_RECORD_IN_PROGRESS
           THEN 1
           ELSE 1 + getEEPROMUptimeStatsReads(E, i + RECORD_SIZE)
    ELSE 0

getEEPROMUptimeStats(E, block) ==
  LET i == UptimeStatsFind(E, 0)
  IN  IF i >= 0
        THEN getDataFromIndex(E, i)
        ELSE <<0, 0, 0, 0, 0, 0, block[7], MODEM_RECORD_IN_PROGRESS>>

\* getEEPROMUptimeStats moving the cursor onto the record it found
getEEPROMUptimeStatsCursorFound(E, idx) ==
  IF UptimeStatsFind(E, 0) >= 0 THEN UptimeStatsFind(E, 0) ELSE idx

\* The cursor getEEPROMUptimeStats leaves: its search runs in the local i
\* and getDataFromIndex(i) reads through its parameter.
getEEPROMUptimeStatsCursor(E, idx) == idx

\* ------------------------------------------------------ addresses read
\* The addresses each operation passes to EEPROM.get or EEPROM.read, before
\* the device reduces them to the bits of its address register.

getIndexOfNextCompletedRecordAddrs(idx) ==
  LET i0 == ToInt(idx + RECORD_SIZE)
      i  == IF GeqU(i0, EEPROMLength) THEN 0 ELSE i0
  IN  {i + 7}

getIndexOfPrevCompletedRecordAddrs(idx) ==
  LET i0 == ToInt(idx - RECORD_SIZE)
      i  == IF i0 < 0 THEN ToInt(U16(i0) + EEPROMLength) ELSE i0
  IN  {i + 7}

getNextCompletedRecordAddrs(E, idx) ==
  LET r == getIndexOfNextCompletedRecord(E, idx)
  IN  getIndexOfNextCompletedRecordAddrs(idx) \cup (IF r.ret < 0 THEN {} ELSE {r.ret + 7})

RECURSIVE RecordInProgressLoopAddrs(_, _, _, _)
RecordInProgressLoopAddrs(E, i, flags, count) ==
  IF flags # MODEM_RECORD_IN_PROGRESS /\ count <= NumRecords
    THEN LET i0 == ToInt(i + RECORD_SIZE)
             i1 == IF GeqU(i0, EEPROMLength) THEN ToInt(U16(i0) - EEPROMLength) ELSE i0
         IN  {i1 + 7} \cup RecordInProgressLoopAddrs(E, i1, EEPROMget(E, i1 + 7), count + 1)
    ELSE {}

getRecordInProgressAddrs(E) ==
  {7} \cup RecordInProgressLoopAddrs(E, 0, EEPROMget(E, 7), 0)

RECURSIVE OldestSecondLoopAddrs(_, _, _, _)
OldestSecondLoopAddrs(E, i, flags, count) ==
  IF count <= NumRecords /\ flags # MODEM_RECORD_COMPLETE
    THEN LET i0 == ToInt(i + RECORD_SIZE)
             i1 == IF GeqU(i0, EEPROMLength) THEN 0 ELSE i0
         IN  {i1 + 7} \cup OldestSecondLoopAddrs(E, i1, EEPROMget(E, i1 + 7), count + 1)
    ELSE {}

RECURSIVE OldestFirstLoopAddrs(_, _, _, _)
OldestFirstLoopAddrs(E, i, flags, count0) ==
  IF flags # MODEM_RECORD_IN_PROGRESS /\ count0 <= NumRecords
    THEN LET i1 == ToInt(i + RECORD_SIZE)
         IN  IF GeqU(i1 + 7, EEPROMLength)
               THEN {}
               ELSE {i1 + 7} \cup OldestFirstLoopAddrs(E, i1, EEPROMget(E, i1 + 7), count0)
    ELSE IF count0 > NumRecords
           THEN {}
           ELSE OldestSecondLoopAddrs(E, i, flags, 1)

getOldestCompletedRecordAddrs(E, count0) ==
  {7} \cup OldestFirstLoopAddrs(E, 0, EEPROMget(E, 7), count0)

RECURSIVE NewestSecondLoopAddrs(_, _, _, _)
NewestSecondLoopAddrs(E, i, flags, count) ==
  IF count <= NumRecords /\ flags = MODEM_RECORD_COMPLETE
    THEN LET r == getIndexOfNextCompletedRecord(E, i)
         IN  getIndexOfNextCompletedRecordAddrs(i) \cup
             (IF r.ret < 0 THEN {}
              ELSE {r.ret + 1} \cup
                   NewestSecondLoopAddrs(E, r.ret, EEPROMget(E, r.ret + 1), count + 1))
    ELSE {}

RECURSIVE NewestFirstLoopAddrs(_, _, _, _)
NewestFirstLoopAddrs(E, i, flags, count) ==
  IF flags # MODEM_RECORD_COMPLETE /\ count <= NumRecords
    THEN LET r == getIndexOfNextCompletedRecord(E, i)
         IN  getIndexOfNextCompletedRecordAddrs(i) \cup
             (IF r.ret < 0 THEN {}
              ELSE {r.ret + 7} \cup
                   NewestFirstLoopAddrs(E, r.ret, EEPROMget(E, r.ret + 7), count + 1))
    ELSE IF count > NumRecords THEN {} ELSE NewestSecondLoopAddrs(E, i, flags, 0)

getNewestCompletedRecordAddrs(E) ==
  {7} \cup NewestFirstLoopAddrs(E, 0, EEPROMget(E, 7), 0)

RECURSIVE UptimeStatsLoopAddrs(_, _, _)
UptimeStatsLoopAddrs(E, idx, flags) ==
  IF flags # MODEM_RECORD_IN_PROGRESS /\ idx + 7 < EEPROMLength
    THEN LET idx1 == U16(idx + RECORD_SIZE)
         IN  IF idx1 + 7 < EEPROMLength
               THEN {idx1 + 7} \cup UptimeStatsLoopAddrs(E, idx1, EEPROMget(E, idx1 + 7))
               ELSE UptimeStatsLoopAddrs(E, idx1, flags)
    ELSE {}

setEEPROMUptimeStatsAddrs(E) ==
  {7} \cup UptimeStatsLoopAddrs(E, 0, EEPROMget(E, 7))

\* EEPROM.get(ind, EEPROMBlock)
getDataFromIndexAddrs(ind) == {ind + k : k \in 0 .. (RECORD_SIZE - 1)}

RECURSIVE UptimeStatsFindAddrs(_, _)
UptimeStatsFindAddrs(E, i) ==
  IF i + 7 < EEPROMLength
    THEN {i + 7} \cup
         (IF EEPROMget(E, i + 7) = MODEM_RECORD_IN_PROGRESS
            THEN getDataFromIndexAddrs(i)
            ELSE UptimeStatsFindAddrs(E, i + RECORD_SIZE))
    ELSE {}

getEEPROMUptimeStatsAddrs(E) == UptimeStatsFindAddrs(E, 0)

\* dumpEEPROM: the locations of every row of 32 that are below the length
dumpEEPROMAddrs ==
  UNION { { row * 32 + i : i \in {j \in 0 .. 31 : row * 32 + j < EEPROMLength} } :
            row \in {r \in 0 .. EEPROMLength : r * 32 < EEPROMLength} }

\* ----------------------------------------------------------------- sketch

\* minutes the modem is given to come online after it is powered
MODEM_ARBITRATION_TIME == 15

\* failed polls before the modem is reset
MAX_RETRIES == 3

S_ARDUINO_POWERUP == 0
S_LOOKING_FOR_MODEM_ONLINE == 1
S_MODEM_IS_ONLINE == 2
S_MODEM_RESTART == 3

OUTPUT_ON == 0
OUTPUT_OFF == 1
OUTPUT_DEFAULT == 2

\* milliseconds the relay stays energised (modem power removed)
MODEM_POWER_OFF_TIME == 3000

\* the levels written to relayPin: LOW powers the modem, HIGH energises the
\* relay and removes modem power
LOW == "LOW"
HIGH == "HIGH"

\* ---------------------------------------------------------------- program

VARIABLES
  EEPROM,            \* the EEPROM: the byte at every address
  modemRecordIndex,  \* _modemRecordIndex, the cursor of the class
  EEPROMBlock,       \* the RAM image of one record
  pc,                \* the writing operation under way and its next step
  last,              \* the operation that returned last and what it returned
                     \* (Running while a writing operation is under way); for a
                     \* restart, the point (pc) at which power was lost
  before,            \* the COMPLETE slots and the IN_PROGRESS slots when the
                     \* last writing operation was called, the cursor at its
                     \* first write, and the addresses it has written so far
  sealed,            \* per slot: the record its COMPLETE flag was written for
  callsLeft,         \* completeLogEntry calls the behaviour may still make
  otherLeft,         \* setEEPROMUptimeStats calls, clearLog calls and restarts
                     \* the behaviour may still make
  modem,             \* the working record of the sketch (struct modemRecord_t)
  printed,           \* the records the history command has printed so far
  state,             \* the state of the state machine of loop()
  retryNo,           \* the failed polls counted
  waitSecs,          \* modem.waitSecs, the seconds since the modem was powered,
                     \* as the last of WaitSecsMarks it has reached
  relayMode,         \* the relay override chosen with the 'R' command
  relayPin,          \* the level last written to relayPin
  clearEEPROMFlag,   \* 'C' was received and awaits its confirmation
  simulateNoResponse,\* the 'F' command: every poll is taken to fail
  relayMillis,       \* currentMillis - previousRelayMillis
  ch,                \* the character handleSerialInput read last
  loopAt             \* the statement of loop() reached

\* the variables of the sketch that the class never touches
sketchVars == << state, retryNo, waitSecs, relayMode, relayPin, clearEEPROMFlag,
                 simulateNoResponse, relayMillis, ch, loopAt >>

vars == << EEPROM, modemRecordIndex, EEPROMBlock, pc, last, before, sealed,
           callsLeft, otherLeft, modem, printed, state, retryNo, waitSecs,
           relayMode, relayPin, clearEEPROMFlag, simulateNoResponse,
           relayMillis, ch, loopAt >>

Idle == [op |-> "idle", step |-> 0]

Running == [op |-> "running", ret |-> 0, at |-> Idle]

NoRecord == [n |-> 0, rec |-> [secsSince1900 |-> <<0, 0>>, downMins |-> 0]]

Max(S) == CHOOSE x \in S : \A y \in S : y <= x

\* the number given to the next record sealed: records are numbered in the
\* order their COMPLETE flags are written
SealNumber(sl) == 1 + Max({sl[s].n : s \in Slots})

\* the ring and the cursor as a writing operation finds them
AtCall(E, idx) ==
  [complete |-> CompleteSlots(E), inProgress |-> InProgressSlots(E),
   idx |-> idx, written |-> {}]

\* One EEPROM.update of a writing operation; sealed follows the flags bytes.
WriteByte(addr, val) ==
  /\ EEPROM' = EEPROMupdate(EEPROM, addr, val)
  /\ before' = [before EXCEPT !.written = @ \cup {addr % EEPROMLength}]
  /\ sealed' =
       IF addr % RECORD_SIZE = 7
         THEN [sealed EXCEPT ![addr \div RECORD_SIZE] =
                 IF val = MODEM_RECORD_COMPLETE
                   THEN [n |-> SealNumber(sealed),
                         rec |-> convertFromEEPROMBlock(EEPROMBlock)]
                   ELSE NoRecord]
         ELSE sealed

Returned(op, ret) == last' = [op |-> op, ret |-> ret, at |-> Idle]

\* completeLogEntryIndex without the call of getRecordInProgress: the record
\* is sealed wherever the cursor was left.
completeLogEntryIndexStale(E, idx) == idx

\* completeLogEntry, lines 250-253: the cursor it seals at.  The cursor is
\* an unsigned int, so the test for a negative cursor is on its unsigned value.
completeLogEntryIndex(E, idx) ==
  LET found == U16(getRecordInProgress(E, idx).idx)
  IN  IF found < 0 THEN 0 ELSE found

\* NextIndex without the wrap at the end of the EEPROM
NextIndexNoWrap(idx) == U16(idx + RECORD_SIZE)

\* the cursor moved on one record, wrapping at the end of the EEPROM
NextIndex(idx) ==
  LET i == U16(idx + RECORD_SIZE)
  IN  IF i >= EEPROMLength THEN U16(i - EEPROMLength) ELSE i

\* completeLogEntryWrite without the seal: the flags of the record in
\* progress are written back as MODEM_RECORD_IN_PROGRESS.
completeLogEntryWriteNoSeal(block, k) ==
  IF k < 6 THEN <<k, block[k + 1]>>
  ELSE IF k = 6 THEN <<7, MODEM_RECORD_IN_PROGRESS>>
  ELSE IF k < 12 THEN <<k - 8, block[k - 7]>>
  ELSE IF k < 14 THEN <<k - 8, 0>>
  ELSE <<7, MODEM_RECORD_IN_PROGRESS>>

\* The byte written by step k of completeLogEntry, as <<offset, value>>.
completeLogEntryWrite(block, k) ==
  IF k < 6 THEN <<k, block[k + 1]>>
  ELSE IF k = 6 THEN <<7, MODEM_RECORD_COMPLETE>>
  ELSE IF k < 12 THEN <<k - 8, block[k - 7]>>
  ELSE IF k < 14 THEN <<k - 8, 0>>
  ELSE <<7, MODEM_RECORD_IN_PROGRESS>>

\* m.convertToEEPROMBlock(&modem); m.completeLogEntry(): up to the first write
CompleteLogEntryCall(src) ==
  /\ pc = Idle
  /\ callsLeft > 0
  /\ callsLeft' = callsLeft - 1
  /\ modem' = src
  /\ EEPROMBlock' = convertToEEPROMBlock(EEPROMBlock, src)
  /\ modemRecordIndex' = completeLogEntryIndex(EEPROM, modemRecordIndex)
  /\ before' = AtCall(EEPROM, modemRecordIndex')
  /\ pc' = [op |-> "completeLogEntry", step |-> 0]
  /\ UNCHANGED << EEPROM, sealed, otherLeft, printed >>
  /\ last' = Running

\* the call made with the sketch at rest
CompleteLogEntry(src) ==
  /\ CompleteLogEntryCall(src)
  /\ UNCHANGED sketchVars

\* the next statement of completeLogEntry
CompleteLogEntryStep ==
  /\ pc.op = "completeLogEntry"
  /\ IF pc.step = 7
       THEN /\ modemRecordIndex' = NextIndex(modemRecordIndex)
            /\ UNCHANGED << EEPROM, sealed, before >>
       ELSE LET w == completeLogEntryWrite(EEPROMBlock, pc.step)
            IN  /\ WriteByte(modemRecordIndex + w[1], w[2])
                /\ UNCHANGED modemRecordIndex
  /\ IF pc.step = 14
       THEN pc' = Idle /\ Returned("completeLogEntry", 0)
       ELSE pc' = [pc EXCEPT !.step = @ + 1] /\ UNCHANGED last
  /\ UNCHANGED << EEPROMBlock, callsLeft, otherLeft, modem, printed >>
  /\ UNCHANGED sketchVars

\* clearLogWrite with the new record written at index 0, not at the cursor.
clearLogWriteAtStart(block, idx, k) ==
  IF k < EEPROMLength THEN <<k, MODEM_RECORD_UNUSED>>
  ELSE IF k < EEPROMLength + 6 THEN <<k - EEPROMLength, block[k - EEPROMLength + 1]>>
  ELSE <<7, MODEM_RECORD_IN_PROGRESS>>

\* clearLogWrite with the loop one byte short: the last byte of the EEPROM,
\* the flags of the last slot, is not written.
clearLogWriteShort(block, idx, k) ==
  IF k < EEPROMLength - 1 THEN <<k, MODEM_RECORD_UNUSED>>
  ELSE IF k = EEPROMLength - 1 THEN <<k - 1, MODEM_RECORD_UNUSED>>
  ELSE IF k < EEPROMLength + 6 THEN <<idx + (k - EEPROMLength), block[k - EEPROMLength + 1]>>
  ELSE <<idx + 7, MODEM_RECORD_IN_PROGRESS>>

\* The byte written by step k of clearLog, as <<address, value>>.
clearLogWrite(block, idx, k) ==
  IF k < EEPROMLength THEN <<k, MODEM_RECORD_UNUSED>>
  ELSE IF k < EEPROMLength + 6 THEN <<idx + (k - EEPROMLength), block[k - EEPROMLength + 1]>>
  ELSE <<idx + 7, MODEM_RECORD_IN_PROGRESS>>

\* m.convertToEEPROMBlock(&modem); m.clearLog(): up to the first write
ClearLogCall(src) ==
  /\ pc = Idle
  /\ otherLeft > 0
  /\ otherLeft' = otherLeft - 1
  /\ modem' = src
  /\ EEPROMBlock' = convertToEEPROMBlock(EEPROMBlock, src)
  /\ before' = AtCall(EEPROM, modemRecordIndex)
  /\ pc' = [op |-> "clearLog", step |-> 0]
  /\ UNCHANGED << EEPROM, modemRecordIndex, sealed, callsLeft, printed >>
  /\ last' = Running

\* the call made with the sketch at rest
ClearLog(src) ==
  /\ ClearLogCall(src)
  /\ UNCHANGED sketchVars

\* the next EEPROM.update of clearLog
ClearLogStep ==
  /\ pc.op = "clearLog"
  /\ LET w == clearLogWrite(EEPROMBlock, modemRecordIndex, pc.step)
     IN  WriteByte(w[1], w[2])
  /\ IF pc.step = EEPROMLength + 6
       THEN pc' = Idle /\ Returned("clearLog", 0)
       ELSE pc' = [pc EXCEPT !.step = @ + 1] /\ UNCHANGED last
  /\ UNCHANGED << modemRecordIndex, EEPROMBlock, callsLeft, otherLeft, modem, printed >>
  /\ UNCHANGED sketchVars

\* setEEPROMUptimeStatsWrite writing the flags of EEPROMBlock, not the
\* literal MODEM_RECORD_IN_PROGRESS.
setEEPROMUptimeStatsWriteBlockFlags(block, k) ==
  IF k < 6 THEN <<k, block[k + 1]>> ELSE <<7, block[8]>>

\* The byte written by step k of setEEPROMUptimeStats, as <<offset, value>>.
setEEPROMUptimeStatsWrite(block, k) ==
  IF k < 6 THEN <<k, block[k + 1]>> ELSE <<7, MODEM_RECORD_IN_PROGRESS>>

\* m.convertToEEPROMBlock(&modem); m.setEEPROMUptimeStats(): up to the first write
SetEEPROMUptimeStats(src) ==
  /\ pc = Idle
  /\ otherLeft > 0
  /\ otherLeft' = otherLeft - 1
  /\ modem' = src
  /\ EEPROMBlock' = convertToEEPROMBlock(EEPROMBlock, src)
  /\ modemRecordIndex' = setEEPROMUptimeStatsIndex(EEPROM)
  /\ before' = AtCall(EEPROM, modemRecordIndex')
  /\ pc' = [op |-> "setEEPROMUptimeStats", step |-> 0]
  /\ UNCHANGED << EEPROM, sealed, callsLeft, printed >>
  /\ last' = Running
  /\ UNCHANGED sketchVars

\* the next EEPROM.update of setEEPROMUptimeStats
SetEEPROMUptimeStatsStep ==
  /\ pc.op = "setEEPROMUptimeStats"
  /\ LET w == setEEPROMUptimeStatsWrite(EEPROMBlock, pc.step)
     IN  WriteByte(modemRecordIndex + w[1], w[2])
  /\ IF pc.step = 6
       THEN pc' = Idle /\ Returned("setEEPROMUptimeStats", 0)
       ELSE pc' = [pc EXCEPT !.step = @ + 1] /\ UNCHANGED last
  /\ UNCHANGED << modemRecordIndex, EEPROMBlock, callsLeft, otherLeft, modem, printed >>
  /\ UNCHANGED sketchVars

\* A scan called from the foreground: it moves the cursor and returns.
Scanned(op, r) ==
  /\ pc = Idle
  /\ modemRecordIndex' = r.idx
  /\ Returned(op, r.ret)
  /\ UNCHANGED << EEPROM, EEPROMBlock, pc, before, sealed, callsLeft, otherLeft,
                  modem, printed >>
  /\ UNCHANGED sketchVars

GetRecordInProgress ==
  Scanned("getRecordInProgress", getRecordInProgress(EEPROM, modemRecordIndex))

GetOldestCompletedRecord ==
  \E count0 \in UninitCounts :
    Scanned("getOldestCompletedRecord",
            getOldestCompletedRecord(EEPROM, modemRecordIndex, count0))

GetNextCompletedRecord ==
  Scanned("getNextCompletedRecord", getNextCompletedRecord(EEPROM, modemRecordIndex))

GetNewestCompletedRecord ==
  Scanned("getNewestCompletedRecord", getNewestCompletedRecord(EEPROM, modemRecordIndex))

GetIndexOfPrevCompletedRecord ==
  Scanned("getIndexOfPrevCompletedRecord",
          getIndexOfPrevCompletedRecord(EEPROM, modemRecordIndex))

\* The state of the RAM after a restart: the object m is zeroed, its
\* constructor runs getNewestCompletedRecord, setup runs getEEPROMUptimeStats
\* and convertFromEEPROMBlock(&modem).
RestartIndex(E) == getNewestCompletedRecord(E, 0).idx

RestartBlock(E) == getEEPROMUptimeStats(E, ZeroBlock)

\* Power is lost, at any point of any operation, and comes back: the EEPROM
\* keeps its bytes, the RAM is initialised again.
Restart ==
  /\ otherLeft > 0
  /\ otherLeft' = otherLeft - 1
  /\ modemRecordIndex' = RestartIndex(EEPROM)
  /\ EEPROMBlock' = RestartBlock(EEPROM)
  /\ modem' = convertFromEEPROMBlock(RestartBlock(EEPROM))
  /\ printed' = << >>
  /\ pc' = Idle
  /\ last' = [op |-> "restart", ret |-> 0, at |-> pc]
  /\ UNCHANGED << EEPROM, before, sealed, callsLeft >>
  /\ state' = S_ARDUINO_POWERUP
  /\ retryNo' = 0
  /\ waitSecs' = 0
  /\ relayMode' = OUTPUT_DEFAULT
  /\ relayPin' = LOW
  /\ clearEEPROMFlag' = FALSE
  /\ simulateNoResponse' = FALSE
  /\ relayMillis' = 0
  /\ ch' = 0
  /\ loopAt' = "top"

\* The EEPROM as shipped: every byte 0xFF.
FreshEEPROM == [a \in Addrs |-> MODEM_RECORD_UNUSED]

SealedOf(E) ==
  [s \in Slots |-> IF FlagsOf(E, s) = MODEM_RECORD_COMPLETE
                     THEN [n |-> 0, rec |-> SlotRecord(E, s)]
                     ELSE NoRecord]

\* The sketch after its initialisers and setup(): digitalWrite(relayPin,
\* LOW), modem.waitSecs = 0.
Setup ==
  /\ state = S_ARDUINO_POWERUP
  /\ retryNo = 0
  /\ waitSecs = 0
  /\ relayMode = OUTPUT_DEFAULT
  /\ relayPin = LOW
  /\ clearEEPROMFlag = FALSE
  /\ simulateNoResponse = FALSE
  /\ relayMillis = 0
  /\ ch = 0
  /\ loopAt = "top"

\* the RAM after the first power up on the EEPROM E
PowerUp(E) ==
  /\ Setup
  /\ EEPROM = E
  /\ modemRecordIndex = RestartIndex(E)
  /\ EEPROMBlock = RestartBlock(E)
  /\ modem = convertFromEEPROMBlock(RestartBlock(E))
  /\ printed = << >>
  /\ pc = Idle
  /\ last = [op |-> "restart", ret |-> 0, at |-> Idle]
  /\ before = AtCall(E, 0)
  /\ sealed = SealedOf(E)

Init ==
  /\ PowerUp(FreshEEPROM)
  /\ callsLeft = MaxCalls
  /\ otherLeft = MaxOther

Next ==
  \/ \E src \in Records : CompleteLogEntry(src)
  \/ CompleteLogEntryStep
  \/ \E src \in Records : ClearLog(src)
  \/ ClearLogStep
  \/ \E src \in Records : SetEEPROMUptimeStats(src)
  \/ SetEEPROMUptimeStatsStep
  \/ GetRecordInProgress
  \/ GetOldestCompletedRecord
  \/ GetNextCompletedRecord
  \/ GetNewestCompletedRecord
  \/ GetIndexOfPrevCompletedRecord
  \/ Restart

Spec == Init /\ [][Next]_vars

\* An EEPROM written before the first power up: any flags byte in every
\* slot, the bytes of the record Stored in the slots that are not UNUSED.
StoredEEPROM(flags) ==
  [a \in Addrs |->
     LET f == flags[a \div RECORD_SIZE]
     IN  IF a % RECORD_SIZE = 7 THEN f
         ELSE IF f = MODEM_RECORD_UNUSED \/ a % RECORD_SIZE = 6 THEN MODEM_RECORD_UNUSED
         ELSE convertToEEPROMBlock(ZeroBlock, Stored)[(a % RECORD_SIZE) + 1]]

\* The first power up on any such EEPROM, followed by at most one
\* completeLogEntry and one other writing operation or restart.
InitAny ==
  /\ \E flags \in [Slots -> FlagValues] : PowerUp(StoredEEPROM(flags))
  /\ callsLeft = 1
  /\ otherLeft = 1

SpecAny == InitAny /\ [][Next]_vars

\* The first power up on such an EEPROM with at most one slot flagged
\* IN_PROGRESS, followed by at most two completeLogEntry calls and one other
\* writing operation or restart.
InitOne ==
  /\ \E flags \in [Slots -> FlagValues] :
       /\ Cardinality({s \in Slots : flags[s] = MODEM_RECORD_IN_PROGRESS}) <= 1
       /\ PowerUp(StoredEEPROM(flags))
  /\ callsLeft = 2
  /\ otherLeft = 1

SpecOne == InitOne /\ [][Next]_vars

\* The program with power never lost: every operation runs to completion.
\* The working record modem takes its timestamp from the NTP poll, so the
\* timestamps passed grow from one completeLogEntry call to the next; the
\* behaviour may make one more setEEPROMUptimeStats or clearLog call.
RunRecords ==
  { [secsSince1900 |-> <<0, 100 * (MaxCalls - callsLeft + 1)>>, downMins |-> d] :
      d \in {0, 5} }

InitRun ==
  /\ PowerUp(FreshEEPROM)
  /\ callsLeft = MaxCalls
  /\ otherLeft = MaxOther + 1

NextRun ==
  \/ \E src \in RunRecords : CompleteLogEntry(src)
  \/ CompleteLogEntryStep
  \/ \E src \in RunRecords : ClearLog(src)
  \/ ClearLogStep
  \/ \E src \in RunRecords : SetEEPROMUptimeStats(src)
  \/ SetEEPROMUptimeStatsStep
  \/ GetRecordInProgress
  \/ GetOldestCompletedRecord
  \/ GetNextCompletedRecord
  \/ GetNewestCompletedRecord
  \/ GetIndexOfPrevCompletedRecord

SpecRun == InitRun /\ [][NextRun]_vars

\* The EEPROM after the writes k .. 6 of setEEPROMUptimeStats at the cursor idx.
RECURSIVE setEEPROMUptimeStatsWrites(_, _, _, _)
setEEPROMUptimeStatsWrites(E, block, idx, k) ==
  IF k > 6 THEN E
  ELSE LET w == setEEPROMUptimeStatsWrite(block, k)
       IN  setEEPROMUptimeStatsWrites(EEPROMupdate(E, idx + w[1], w[2]), block, idx, k + 1)

\* ISR(TIMER1_COMPB_vect) on the minute it records the uptime:
\* m.convertToEEPROMBlock(&modem); m.setEEPROMUptimeStats().  Nothing masks
\* the interrupt, so it is taken at any point of loop(), also between two
\* EEPROM writes of the operation loop() is in; the handler itself runs with
\* interrupts disabled, from its first statement to its last.  The cursor
\* and EEPROMBlock are plain (not volatile) members shared with loop(): an
\* interrupted operation goes on with the values the handler left or, when
\* the compiler held them in registers, with the values it had (kept).
TimerISR(src) ==
  /\ otherLeft > 0
  /\ otherLeft' = otherLeft - 1
  /\ modem' = src
  /\ LET block == convertToEEPROMBlock(EEPROMBlock, src)
         idx   == setEEPROMUptimeStatsIndex(EEPROM)
     IN  /\ EEPROM' = setEEPROMUptimeStatsWrites(EEPROM, block, idx, 0)
         /\ sealed' = [sealed EXCEPT ![idx \div RECORD_SIZE] = NoRecord]
         /\ \E kept \in (IF pc = Idle THEN {FALSE} ELSE BOOLEAN) :
              IF kept
                THEN UNCHANGED << modemRecordIndex, EEPROMBlock >>
                ELSE modemRecordIndex' = idx /\ EEPROMBlock' = block
  /\ last' = [op |-> "isr", ret |-> 0, at |-> pc]
  /\ UNCHANGED << pc, before, callsLeft, printed >>
  /\ UNCHANGED sketchVars

\* enough completeLogEntry calls to wrap the ring
InitISR ==
  /\ PowerUp(FreshEEPROM)
  /\ callsLeft = NumRecords
  /\ otherLeft = MaxOther

\* loop() and the timer interrupt, power never lost
NextISR ==
  \/ \E src \in RunRecords : CompleteLogEntry(src)
  \/ CompleteLogEntryStep
  \/ \E src \in RunRecords : ClearLog(src)
  \/ ClearLogStep
  \/ \E src \in RunRecords : TimerISR(src)
  \/ GetRecordInProgress
  \/ GetOldestCompletedRecord
  \/ GetNextCompletedRecord
  \/ GetNewestCompletedRecord
  \/ GetIndexOfPrevCompletedRecord

SpecISR == InitISR /\ [][NextISR]_vars

\* The codec alone.  The halves of the timestamp and the downtime are drawn
\* from the values at which a byte or the 16 bit word carries or changes
\* sign; EEPROMBlock starts with bytes the conversion has to overwrite and
\* with any spare and flags bytes.
Bound16 == {0, 1, 255, 256, 32768, 65535}

CodecRecords ==
  { [secsSince1900 |-> UInt32(hi, lo), downMins |-> d] :
      hi \in Bound16, lo \in Bound16, d \in Bound16 }

CodecBlocks ==
  { <<170, 85, 170, 85, 170, 85, sp, fl>> :
      sp \in {0, MODEM_RECORD_UNUSED}, fl \in {MODEM_RECORD_IN_PROGRESS, MODEM_RECORD_UNUSED} }

InitCodec ==
  /\ Setup
  /\ EEPROM = FreshEEPROM
  /\ modemRecordIndex = 0
  /\ EEPROMBlock \in CodecBlocks
  /\ modem \in CodecRecords
  /\ printed = << >>
  /\ pc = Idle
  /\ last = [op |-> "restart", ret |-> 0, at |-> Idle]
  /\ before = AtCall(FreshEEPROM, 0)
  /\ sealed = SealedOf(FreshEEPROM)
  /\ callsLeft = 0
  /\ otherLeft = 0

\* m.convertToEEPROMBlock(&modem)
ConvertToEEPROMBlock ==
  /\ pc = Idle
  /\ EEPROMBlock' = convertToEEPROMBlock(EEPROMBlock, modem)
  /\ Returned("convertToEEPROMBlock", 0)
  /\ UNCHANGED << EEPROM, modemRecordIndex, pc, before, sealed, callsLeft,
                  otherLeft, modem, printed >>
  /\ UNCHANGED sketchVars

\* m.convertFromEEPROMBlock(&modem)
ConvertFromEEPROMBlock ==
  /\ pc = Idle
  /\ modem' = convertFromEEPROMBlock(EEPROMBlock)
  /\ Returned("convertFromEEPROMBlock", 0)
  /\ UNCHANGED << EEPROM, modemRecordIndex, EEPROMBlock, pc, before, sealed,
                  callsLeft, otherLeft, printed >>
  /\ UNCHANGED sketchVars

NextCodec ==
  \/ ConvertToEEPROMBlock
  \/ ConvertFromEEPROMBlock

SpecCodec == InitCodec /\ [][NextCodec]_vars

\* m.getDataFromIndex(): the record at the cursor is read into EEPROMBlock
GetDataFromIndex ==
  /\ pc = Idle
  /\ EEPROMBlock' = getDataFromIndex(EEPROM, modemRecordIndex)
  /\ Returned("getDataFromIndex", 0)
  /\ UNCHANGED << EEPROM, modemRecordIndex, pc, before, sealed, callsLeft,
                  otherLeft, modem, printed >>
  /\ UNCHANGED sketchVars

\* m.getEEPROMUptimeStats()
GetEEPROMUptimeStats ==
  /\ pc = Idle
  /\ EEPROMBlock' = getEEPROMUptimeStats(EEPROM, EEPROMBlock)
  /\ modemRecordIndex' = getEEPROMUptimeStatsCursor(EEPROM, modemRecordIndex)
  /\ Returned("getEEPROMUptimeStats", 0)
  /\ UNCHANGED << EEPROM, pc, before, sealed, callsLeft, otherLeft, modem, printed >>
  /\ UNCHANGED sketchVars

\* m.dumpEEPROM(): EEPROM.read of every address, printed in rows of 32
DumpEEPROM ==
  /\ pc = Idle
  /\ Returned("dumpEEPROM", 0)
  /\ UNCHANGED << EEPROM, modemRecordIndex, EEPROMBlock, pc, before, sealed,
                  callsLeft, otherLeft, modem, printed >>
  /\ UNCHANGED sketchVars

\* the flags bytes the class writes
ClassFlags == {MODEM_RECORD_COMPLETE, MODEM_RECORD_IN_PROGRESS, MODEM_RECORD_UNUSED}

\* The first power up on any EEPROM the class wrote before, then every
\* operation that does not complete a record: the checkpoint, the
\* observers, restarts.
InitObs ==
  /\ \E flags \in [Slots -> ClassFlags] : PowerUp(StoredEEPROM(flags))
  /\ callsLeft = 0
  /\ otherLeft = 2

NextObs ==
  \/ \E src \in Records : SetEEPROMUptimeStats(src)
  \/ SetEEPROMUptimeStatsStep
  \/ Restart
  \/ GetRecordInProgress
  \/ GetOldestCompletedRecord
  \/ GetNextCompletedRecord
  \/ GetNewestCompletedRecord
  \/ GetIndexOfPrevCompletedRecord
  \/ GetDataFromIndex
  \/ GetEEPROMUptimeStats
  \/ DumpEEPROM

SpecObs == InitObs /\ [][NextObs]_vars

\* The history command, case 'S' of the serial input: up to the return of
\* m.getOldestCompletedRecord().
History ==
  /\ pc = Idle
  /\ printed' = << >>
  /\ \E count0 \in UninitCounts :
       LET r == getOldestCompletedRecord(EEPROM, modemRecordIndex, count0)
       IN  /\ modemRecordIndex' = r.idx
           /\ IF r.ret = -1
                THEN pc' = Idle /\ Returned("history", -1)
                ELSE pc' = [op |-> "history", step |-> 0] /\ last' = Running
  /\ UNCHANGED << EEPROM, EEPROMBlock, before, sealed, callsLeft, otherLeft, modem >>
  /\ UNCHANGED sketchVars

\* The next call of the history command.  dumpOutageRecord():
\*   step 0  m.getDataFromIndex()
\*   step 1  m.convertFromEEPROMBlock(&mRec) and the printing of mRec
\* and the condition of the while loop:
\*   step 2  m.getNextCompletedRecord()
HistoryStep ==
  /\ pc.op = "history"
  /\ CASE pc.step = 0 ->
            /\ EEPROMBlock' = getDataFromIndex(EEPROM, modemRecordIndex)
            /\ pc' = [pc EXCEPT !.step = 1]
            /\ UNCHANGED << modemRecordIndex, printed, last >>
       [] pc.step = 1 ->
            /\ printed' = Append(printed, convertFromEEPROMBlock(EEPROMBlock))
            /\ pc' = [pc EXCEPT !.step = 2]
            /\ UNCHANGED << modemRecordIndex, EEPROMBlock, last >>
       [] OTHER ->
            LET r == getNextCompletedRecord(EEPROM, modemRecordIndex)
            IN  /\ modemRecordIndex' = r.idx
                /\ IF r.ret = -1
                     THEN pc' = Idle /\ Returned("history", 0)
                     ELSE pc' = [pc EXCEPT !.step = 0] /\ UNCHANGED last
                /\ UNCHANGED << EEPROMBlock, printed >>
  /\ UNCHANGED << EEPROM, before, sealed, callsLeft, otherLeft, modem >>
  /\ UNCHANGED sketchVars

\* outages short of a full ring, then the history command
InitHist ==
  /\ PowerUp(FreshEEPROM)
  /\ callsLeft = NumRecords - 1
  /\ otherLeft = MaxOther

\* loop() completing records and answering the history command, and the
\* timer interrupt
NextHist ==
  \/ \E src \in RunRecords : CompleteLogEntry(src)
  \/ CompleteLogEntryStep
  \/ \E src \in RunRecords : TimerISR(src)
  \/ History
  \/ HistoryStep

SpecHist == InitHist /\ [][NextHist]_vars

\* ------------------------------------------------------ the sketch: loop()

\* seconds of modem.waitSecs that make up the arbitration time
ArbitrationSecs == MODEM_ARBITRATION_TIME * 60

\* The values of modem.waitSecs at which loop() can tell a second from the
\* one before: 0, the end of the arbitration time and, below it, the last
\* second whose low byte is 255 and the second after it.  Between two
\* marks every value compares as the lower mark does.
WaitSecsMarks ==
  LET carry == Max({w \in 0 .. ArbitrationSecs - 1 : w % 256 = 255})
  IN  {0, carry, carry + 1, ArbitrationSecs}

\* modem.waitSecs++ of the timer interrupt that reaches the next mark
TimerSecond(w) ==
  LET later == {k \in WaitSecsMarks : k > w}
  IN  IF later = {} THEN w ELSE CHOOSE k \in later : \A j \in later : k <= j

\* most minutes of an outage that are counted
MaxDownMins == 2

\* modem.downMins++ of the timer interrupt
DownMinute(d) == IF d < MaxDownMins THEN d + 1 ELSE d

\* ISR(TIMER1_COMPB_vect), lines 204-205: the minute is counted as downtime
TimerDownMins(rec, st, r) ==
  IF r > 0 \/ st = S_LOOKING_FOR_MODEM_ONLINE \/ st = S_ARDUINO_POWERUP
    THEN [rec EXCEPT !.downMins = DownMinute(@)]
    ELSE rec

\* ISR(TIMER1_COMPB_vect): secs++, modem.waitSecs++, on the minute
\* (secs > 60) the downtime, and on the quarter of an hour (mins%15 == 0)
\* m.convertToEEPROMBlock(&modem); m.setEEPROMUptimeStats().  Nothing masks
\* the interrupt: it is taken between any two statements of loop().
TimerCompB(minute, quarter, mark) ==
  /\ waitSecs' = IF mark THEN TimerSecond(waitSecs) ELSE waitSecs
  /\ modem' = IF minute THEN TimerDownMins(modem, state, retryNo) ELSE modem
  /\ IF minute /\ quarter
       THEN /\ otherLeft > 0
            /\ otherLeft' = otherLeft - 1
            /\ LET block == convertToEEPROMBlock(EEPROMBlock, modem')
                   idx   == setEEPROMUptimeStatsIndex(EEPROM)
               IN  /\ EEPROM' = setEEPROMUptimeStatsWrites(EEPROM, block, idx, 0)
                   /\ sealed' = [sealed EXCEPT ![idx \div RECORD_SIZE] = NoRecord]
                   /\ \E kept \in (IF pc = Idle THEN {FALSE} ELSE BOOLEAN) :
                        IF kept
                          THEN UNCHANGED << modemRecordIndex, EEPROMBlock >>
                          ELSE modemRecordIndex' = idx /\ EEPROMBlock' = block
            /\ last' = [op |-> "isr", ret |-> 0, at |-> pc]
       ELSE UNCHANGED << EEPROM, modemRecordIndex, EEPROMBlock, sealed, otherLeft, last >>
  /\ UNCHANGED << pc, before, callsLeft, printed, state, retryNo, relayMode,
                  relayPin, clearEEPROMFlag, simulateNoResponse, relayMillis,
                  ch, loopAt >>

\* The values a read of modem.waitSecs by loop() can give.  The member is
\* 16 bits wide and read in two byte loads; the timer interrupt taken
\* between them gives one byte of the old value and one of the new, in the
\* order the build loads them.  (The new value whole is the read after the
\* interrupt.)
WaitSecsRead(w) ==
  LET n == U16(w + 1)
  IN  {w} \cup ({(n \div 256) * 256 + (w % 256), (w \div 256) * 256 + (n % 256)} \ {n})

\* modem.waitSecs = 0 of loop().  The store is two byte stores; the timer
\* interrupt taken between them increments the half written word and
\* leaves 1 or 256: every outcome is below the first mark after 0.
WaitSecsReset(w) == 0

\* RetryCounted without the arbitration time: only polls that fail while
\* the modem is online are counted.
RetryCountedOnlineOnly(st, w) == st = S_MODEM_IS_ONLINE

\* loop(), line 364: the failed poll is counted
RetryCounted(st, w) ==
  st = S_MODEM_IS_ONLINE \/ w \div 60 >= MODEM_ARBITRATION_TIME

\* loop(), line 372: the modem is to be power cycled
RestartDue(r) == r > MAX_RETRIES

\* HoldRelayPin energising the relay in every relay mode
HoldRelayPinAlways(mode, pin) == HIGH

\* loop(), lines 426-433: the relay pin while modem power is held off
HoldRelayPin(mode, pin) == IF mode = OUTPUT_OFF THEN pin ELSE HIGH

\* the values currentMillis - previousRelayMillis is told apart by
RelayMillisValues == {0, MODEM_POWER_OFF_TIME, MODEM_POWER_OFF_TIME + 1}

\* The timestamp of an NTP reply: it grows from one outage to the next.
NTPTime == <<0, 100 * (MaxCalls - callsLeft + 1)>>

\* loop(), lines 333-355: a poll that succeeds.  After an outage
\* (S_LOOKING_FOR_MODEM_ONLINE) the record is completed first:
\* m.convertToEEPROMBlock(&modem); m.completeLogEntry().
PollSuccess ==
  /\ loopAt = "top"
  /\ state # S_MODEM_RESTART
  /\ ~simulateNoResponse
  /\ IF state = S_LOOKING_FOR_MODEM_ONLINE
       THEN /\ CompleteLogEntryCall([modem EXCEPT !.secsSince1900 = NTPTime])
            /\ loopAt' = "sealing"
            /\ UNCHANGED state
       ELSE /\ pc = Idle
            /\ modem' = [modem EXCEPT !.secsSince1900 = NTPTime, !.downMins = 0]
            /\ state' = S_MODEM_IS_ONLINE
            /\ loopAt' = "online"
            /\ UNCHANGED << EEPROM, modemRecordIndex, EEPROMBlock, pc, last,
                            before, sealed, callsLeft, otherLeft, printed >>
  /\ UNCHANGED << retryNo, waitSecs, relayMode, relayPin, clearEEPROMFlag,
                  simulateNoResponse, relayMillis, ch >>

\* loop(), lines 353-355, after completeLogEntry returned
PollSuccessSealed ==
  /\ loopAt = "sealing"
  /\ pc = Idle
  /\ state' = S_MODEM_IS_ONLINE
  /\ modem' = [modem EXCEPT !.downMins = 0]
  /\ loopAt' = "online"
  /\ UNCHANGED << EEPROM, modemRecordIndex, EEPROMBlock, pc, last, before,
                  sealed, callsLeft, otherLeft, printed, retryNo, waitSecs,
                  relayMode, relayPin, clearEEPROMFlag, simulateNoResponse,
                  relayMillis, ch >>

\* loop(), line 356, and the rest of the pass (line 448)
PollSuccessEnd ==
  /\ loopAt = "online"
  /\ retryNo' = 0
  /\ relayMillis' = 0
  /\ loopAt' = "top"
  /\ UNCHANGED << EEPROM, modemRecordIndex, EEPROMBlock, pc, last, before,
                  sealed, callsLeft, otherLeft, modem, printed, state, waitSecs,
                  relayMode, relayPin, clearEEPROMFlag, simulateNoResponse, ch >>

\* loop(), lines 357-375 and 407-433: a poll that fails, and on a restart
\* the first pass through the hold of modem power, in which
\* currentMillis - previousRelayMillis is 0.
PollFail ==
  /\ loopAt = "top"
  /\ pc = Idle
  /\ state # S_MODEM_RESTART
  /\ \E w \in WaitSecsRead(waitSecs) :
       LET r == IF RetryCounted(state, w) THEN (retryNo + 1) % 256 ELSE retryNo
       IN  /\ waitSecs' = IF w = waitSecs THEN waitSecs ELSE U16(waitSecs + 1)
           /\ IF RestartDue(r)
                THEN /\ state' = S_MODEM_RESTART
                     /\ retryNo' = 0
                     /\ relayPin' = HoldRelayPin(relayMode, relayPin)
                ELSE /\ retryNo' = r
                     /\ UNCHANGED << state, relayPin >>
  /\ relayMillis' = 0
  /\ UNCHANGED << EEPROM, modemRecordIndex, EEPROMBlock, pc, last, before,
                  sealed, callsLeft, otherLeft, modem, printed, relayMode,
                  clearEEPROMFlag, simulateNoResponse, ch, loopAt >>

\* switchRelayOff(): power is re-applied to the modem
switchRelayOff(pin) == LOW

\* loop(), lines 407-446: a pass in S_MODEM_RESTART after the time e since
\* the restart began.
RestartPass(e) ==
  /\ loopAt = "top"
  /\ pc = Idle
  /\ state = S_MODEM_RESTART
  /\ e >= relayMillis
  /\ relayMillis' = e
  /\ IF e <= MODEM_POWER_OFF_TIME
       THEN /\ retryNo' = 0
            /\ relayPin' = HoldRelayPin(relayMode, relayPin)
            /\ UNCHANGED << state, waitSecs >>
       ELSE IF relayMode = OUTPUT_DEFAULT
              THEN /\ relayPin' = switchRelayOff(relayPin)
                   /\ state' = S_LOOKING_FOR_MODEM_ONLINE
                   /\ waitSecs' = WaitSecsReset(waitSecs)
                   /\ UNCHANGED retryNo
              ELSE UNCHANGED << state, waitSecs, retryNo, relayPin >>
  /\ UNCHANGED << EEPROM, modemRecordIndex, EEPROMBlock, pc, last, before,
                  sealed, callsLeft, otherLeft, modem, printed, relayMode,
                  clearEEPROMFlag, simulateNoResponse, ch, loopAt >>

\* the characters typed: commands in either case, and a key that is none
Typed == {67, 99, 89, 121, 82, 114, 70, 68, 88}

\* toUpperCase()
toUpperCase(c) == IF c >= 97 /\ c <= 122 THEN c - 32 ELSE c

\* handleSerialInput, line 464: ch = toUpperCase(Serial.read())
SerialRead(c) ==
  /\ loopAt = "top"
  /\ pc = Idle
  /\ ch' = toUpperCase(c)
  /\ loopAt' = "serial"
  /\ UNCHANGED << EEPROM, modemRecordIndex, EEPROMBlock, pc, last, before,
                  sealed, callsLeft, otherLeft, modem, printed, state, retryNo,
                  waitSecs, relayMode, relayPin, clearEEPROMFlag,
                  simulateNoResponse, relayMillis >>

\* ClearAborted with the confirmation taken from any command but 'C'
ClearAbortedOnCOnly(flag, c) == flag /\ c = 67

\* handleSerialInput, line 466: a pending clear is aborted
ClearAborted(flag, c) == flag /\ c # 89

\* case 'R', lines 551-574: the relay mode after the command
RelayModeAfterR(mode) ==
  IF mode = OUTPUT_ON THEN OUTPUT_OFF
  ELSE IF mode = OUTPUT_OFF THEN OUTPUT_DEFAULT
  ELSE OUTPUT_ON

\* case 'R': the relay pin after the command
RelayPinAfterR(mode, pin) ==
  IF mode = OUTPUT_ON THEN switchRelayOff(pin) ELSE pin

\* handleSerialInput, lines 466-630: the character read is acted on.  Case
\* 'Y' with a clear pending: modem.downMins = 0;
\* m.convertToEEPROMBlock(&modem); m.clearLog(), up to its first write.
SerialCommand ==
  /\ loopAt = "serial"
  /\ IF ClearAborted(clearEEPROMFlag, ch)
       THEN /\ clearEEPROMFlag' = FALSE
            /\ loopAt' = "top"
            /\ UNCHANGED << EEPROM, modemRecordIndex, EEPROMBlock, pc, last,
                            before, sealed, otherLeft, modem, relayMode,
                            relayPin, simulateNoResponse >>
       ELSE CASE ch = 67 ->
                   /\ clearEEPROMFlag' = TRUE
                   /\ loopAt' = "top"
                   /\ UNCHANGED << EEPROM, modemRecordIndex, EEPROMBlock, pc,
                                   last, before, sealed, otherLeft, modem,
                                   relayMode, relayPin, simulateNoResponse >>
              [] ch = 68 ->
                   /\ Returned("dumpEEPROM", 0)
                   /\ loopAt' = "top"
                   /\ UNCHANGED << EEPROM, modemRecordIndex, EEPROMBlock, pc,
                                   before, sealed, otherLeft, modem, relayMode,
                                   relayPin, simulateNoResponse, clearEEPROMFlag >>
              [] ch = 70 ->
                   /\ simulateNoResponse' = ~simulateNoResponse
                   /\ loopAt' = "top"
                   /\ UNCHANGED << EEPROM, modemRecordIndex, EEPROMBlock, pc,
                                   last, before, sealed, otherLeft, modem,
                                   relayMode, relayPin, clearEEPROMFlag >>
              [] ch = 82 ->
                   /\ relayMode' = RelayModeAfterR(relayMode)
                   /\ relayPin' = RelayPinAfterR(relayMode, relayPin)
                   /\ loopAt' = "top"
                   /\ UNCHANGED << EEPROM, modemRecordIndex, EEPROMBlock, pc,
                                   last, before, sealed, otherLeft, modem,
                                   simulateNoResponse, clearEEPROMFlag >>
              [] ch = 89 /\ clearEEPROMFlag ->
                   /\ ClearLogCall([modem EXCEPT !.downMins = 0])
                   /\ loopAt' = "clearing"
                   /\ UNCHANGED << relayMode, relayPin, simulateNoResponse,
                                   clearEEPROMFlag >>
              [] OTHER ->
                   /\ loopAt' = "top"
                   /\ UNCHANGED << EEPROM, modemRecordIndex, EEPROMBlock, pc,
                                   last, before, sealed, otherLeft, modem,
                                   relayMode, relayPin, simulateNoResponse,
                                   clearEEPROMFlag >>
  /\ UNCHANGED << callsLeft, printed, state, retryNo, waitSecs, relayMillis, ch >>

\* case 'Y', line 626, after clearLog returned: clearEEPROMFlag = false
ClearLogDone ==
  /\ loopAt = "clearing"
  /\ pc = Idle
  /\ clearEEPROMFlag' = FALSE
  /\ loopAt' = "top"
  /\ UNCHANGED << EEPROM, modemRecordIndex, EEPROMBlock, pc, last, before,
                  sealed, callsLeft, otherLeft, modem, printed, state, retryNo,
                  waitSecs, relayMode, relayPin, simulateNoResponse,
                  relayMillis, ch >>

\* The sketch from its first power up on a fresh EEPROM; one outage is
\* completed and one checkpoint written at most.
InitSketch ==
  /\ PowerUp(FreshEEPROM)
  /\ callsLeft = 1
  /\ otherLeft = 1

\* the keys of the relay command
RelayKeys == {82, 114}

\* loop() with the relay command, and the timer interrupt
NextSketch ==
  \/ PollSuccess
  \/ CompleteLogEntryStep
  \/ PollSuccessSealed
  \/ PollSuccessEnd
  \/ PollFail
  \/ \E e \in RelayMillisValues : RestartPass(e)
  \/ \E c \in RelayKeys : SerialRead(c)
  \/ SerialCommand
  \/ \E minute \in BOOLEAN, quarter \in BOOLEAN, mark \in BOOLEAN :
       TimerCompB(minute, quarter, mark)

SpecSketch == InitSketch /\ [][NextSketch]_vars

\* An outage that does not end: every poll fails and no key is typed, so
\* relayMode stays OUTPUT_DEFAULT.  loop() is called again and again, the
\* poll comes due again and again, millis() advances and the timer
\* interrupt is taken every second.
NextOutage ==
  \/ PollFail
  \/ \E e \in RelayMillisValues : RestartPass(e)
  \/ \E minute \in BOOLEAN, quarter \in BOOLEAN, mark \in BOOLEAN :
       TimerCompB(minute, quarter, mark)

OutageFairness ==
  /\ WF_vars(PollFail)
  /\ WF_vars(\E e \in RelayMillisValues : RestartPass(e))
  /\ WF_vars(\E minute \in BOOLEAN, quarter \in BOOLEAN, mark \in BOOLEAN :
               TimerCompB(minute, quarter, mark))

SpecOutage == InitSketch /\ [][NextOutage]_vars /\ OutageFairness

\* The same outage with the relay command: a key may be typed at any time,
\* or never; a character read is acted on.
NextOutageRelay ==
  \/ PollFail
  \/ \E e \in RelayMillisValues : RestartPass(e)
  \/ \E minute \in BOOLEAN, quarter \in BOOLEAN, mark \in BOOLEAN :
       TimerCompB(minute, quarter, mark)
  \/ \E c \in RelayKeys : SerialRead(c)
  \/ SerialCommand

SpecOutageRelay ==
  InitSketch /\ [][NextOutageRelay]_vars /\ OutageFairness /\ WF_vars(SerialCommand)

\* the serial commands alone, with room for two clears
InitSerial ==
  /\ PowerUp(FreshEEPROM)
  /\ callsLeft = 0
  /\ otherLeft = MaxOther + 1

NextSerial ==
  \/ \E c \in Typed : SerialRead(c)
  \/ SerialCommand
  \/ ClearLogStep
  \/ ClearLogDone

SpecSerial == InitSerial /\ [][NextSerial]_vars

\* ----------------------------------------------------------------- claims

\* The history command ('S'): getOldestCompletedRecord, then
\* getNextCompletedRecord until it returns -1.  visited is the sequence of
\* the indexes returned; at most fuel further records are visited.
RECURSIVE WalkNext(_, _, _, _)
WalkNext(E, idx, visited, fuel) ==
  LET r == getNextCompletedRecord(E, idx)
  IN  IF r.ret = -1 \/ fuel = 0
        THEN [visited |-> visited, ended |-> r.ret = -1]
        ELSE WalkNext(E, r.idx, Append(visited, r.ret), fuel - 1)

Walk(E, idx, count0) ==
  LET r == getOldestCompletedRecord(E, idx, count0)
  IN  IF r.ret = -1
        THEN [visited |-> << >>, ended |-> TRUE]
        ELSE WalkNext(E, r.idx, <<r.ret>>, NumRecords)

SlotAt(index) == index \div RECORD_SIZE

\* Only completeLogEntry calls (and scans) have run since the first power
\* up on the all-UNUSED EEPROM, and the last of them has returned.
OnlyCompleteCalls == pc = Idle /\ otherLeft = MaxOther

CallsMade == MaxCalls - callsLeft

\* C1: after every completeLogEntry call at most one slot is flagged
\* IN_PROGRESS.
C1_AtMostOneInProgress ==
  last.op = "completeLogEntry" => Cardinality(InProgressSlots(EEPROM)) <= 1

\* the last of NumRecords + 3 calls has returned: the ring has wrapped
C1_Witness ==
  /\ last.op = "completeLogEntry"
  /\ callsLeft = 0
  /\ Cardinality(InProgressSlots(EEPROM)) = 1

\* C2: in every state, the states between two byte writes included, every
\* slot flagged COMPLETE holds the timestamp and downtime of the record its
\* COMPLETE flag was written for.
C2_CompleteSlotHoldsSealedRecord ==
  \A s \in Slots :
    FlagsOf(EEPROM, s) = MODEM_RECORD_COMPLETE => SlotRecord(EEPROM, s) = sealed[s].rec

\* C3: after a power loss inside completeLogEntry and the restart, the
\* history walk visits every slot that was COMPLETE when completeLogEntry
\* was called, except at most the slot after the one it seals.  The walk is
\* taken with the unassigned count of getOldestCompletedRecord at most N,
\* the values with which it searches at all.
C3_RestartKeepsHistory ==
  (last.op = "restart" /\ last.at.op = "completeLogEntry") =>
    \A count0 \in {c \in UninitCounts : c <= NumRecords} :
      LET w == Walk(EEPROM, modemRecordIndex, count0).visited
      IN  (before.complete \ {SlotAt(NextIndex(before.idx))})
             \subseteq {SlotAt(w[j]) : j \in 1 .. Len(w)}

\* C4: after k < N completeLogEntry calls on the all-UNUSED ring, the
\* history walk visits exactly the k records, in the order they were
\* sealed, and then getNextCompletedRecord returns -1.
C4_WalkInCreationOrder ==
  (OnlyCompleteCalls /\ CallsMade >= 1 /\ CallsMade < NumRecords) =>
    \A count0 \in UninitCounts :
      LET w == Walk(EEPROM, modemRecordIndex, count0)
      IN  /\ w.ended
          /\ Len(w.visited) = CallsMade
          /\ \A j \in 1 .. Len(w.visited) :
               /\ sealed[SlotAt(w.visited[j])].n = j
               /\ SlotRecord(EEPROM, SlotAt(w.visited[j])) = sealed[SlotAt(w.visited[j])].rec

\* the ring after N + 3 completeLogEntry calls on the all-UNUSED ring
AfterWrap == OnlyCompleteCalls /\ callsLeft = 0

C6_NewestHasNoSuccessor ==
  last.op = "getNewestCompletedRecord" =>
    getNextCompletedRecord(EEPROM, modemRecordIndex).ret = -1

\* C7: in a ring built by completeLogEntry calls alone that has a COMPLETE
\* slot, getNewestCompletedRecord returns the record sealed last, which is
\* in the slot before the IN_PROGRESS slot.
C7_NewestIsLastSealed ==
  (last.op = "getNewestCompletedRecord" /\ OnlyCompleteCalls
     /\ CompleteSlots(EEPROM) # {}) =>
    /\ last.ret >= 0
    /\ sealed[SlotAt(last.ret)].n = Max({sealed[s].n : s \in Slots})
    /\ FlagsOf(EEPROM, SlotAt(NextIndex(last.ret))) = MODEM_RECORD_IN_PROGRESS

\* getNewestCompletedRecord has returned on a ring with exactly one
\* IN_PROGRESS slot and no COMPLETE slot
NewestOnInProgressOnly ==
  /\ last.op = "getNewestCompletedRecord"
  /\ Cardinality(InProgressSlots(EEPROM)) = 1
  /\ CompleteSlots(EEPROM) = {}

C9_ClearThenInProgress ==
  last.op = "clearLog" =>
    LET r == getRecordInProgress(EEPROM, modemRecordIndex)
    IN  r.ret = before.idx /\ r.ret # -1 /\ r.idx = before.idx

\* clearLog has returned after being called with the cursor on the last slot
C9_Witness ==
  /\ last.op = "clearLog"
  /\ before.idx = (NumRecords - 1) * RECORD_SIZE
  /\ getRecordInProgress(EEPROM, modemRecordIndex).ret = before.idx

\* C10: after clearLog called with cursor c and record r, slot c holds r's
\* timestamp and downtime and the IN_PROGRESS flag, every other byte of the
\* EEPROM is 0xFF, and the cursor is c.
C10_ClearedRing ==
  last.op = "clearLog" =>
    LET c == before.idx
    IN  /\ modemRecordIndex = c
        /\ c % RECORD_SIZE = 0 /\ c < EEPROMLength
        /\ \A k \in 0 .. 5 : EEPROM[c + k] = EEPROMBlock[k + 1]
        /\ SlotRecord(EEPROM, SlotAt(c)) \in Records
        /\ EEPROM[c + 7] = MODEM_RECORD_IN_PROGRESS
        /\ \A a \in Addrs :
             (a < c \/ a > c + 7 \/ a = c + 6) => EEPROM[a] = MODEM_RECORD_UNUSED
        /\ CompleteSlots(EEPROM) = {}
        /\ InProgressSlots(EEPROM) = {SlotAt(c)}

\* clearLog has returned on an EEPROM that held a COMPLETE record before,
\* with the cursor past slot 0 and a record with a downtime
C10_Witness ==
  /\ last.op = "clearLog"
  /\ before.complete # {}
  /\ before.idx > 0
  /\ SlotRecord(EEPROM, SlotAt(before.idx)).downMins = 5

\* the addresses of slot s
SlotAddrs(s) == {s * RECORD_SIZE + k : k \in 0 .. (RECORD_SIZE - 1)}

\* the record the caller passed to the operation that returned last
PassedRecord == convertFromEEPROMBlock(EEPROMBlock)

\* C11: when exactly one slot p is IN_PROGRESS, completeLogEntry with record
\* r leaves slot p COMPLETE holding r, slot (p+1) mod N IN_PROGRESS holding
\* r's timestamp and downtime 0, the cursor at (p+1) mod N, and writes to no
\* other slot.
C11_SealsInProgressSlot ==
  (last.op = "completeLogEntry" /\ Cardinality(before.inProgress) = 1) =>
    \A p \in before.inProgress :
      LET q == (p + 1) % NumRecords
      IN  /\ PassedRecord \in Records
          /\ FlagsOf(EEPROM, p) = MODEM_RECORD_COMPLETE
          /\ SlotRecord(EEPROM, p) = PassedRecord
          /\ FlagsOf(EEPROM, q) = MODEM_RECORD_IN_PROGRESS
          /\ SlotRecord(EEPROM, q) = [PassedRecord EXCEPT !.downMins = 0]
          /\ modemRecordIndex = q * RECORD_SIZE
          /\ before.written \subseteq (SlotAddrs(p) \cup SlotAddrs(q))

\* completeLogEntry has returned after sealing the last slot of the ring and
\* starting the new record over a COMPLETE slot 0, with a downtime of 5
C11_Witness ==
  /\ last.op = "completeLogEntry"
  /\ before.inProgress = {NumRecords - 1}
  /\ 0 \in before.complete
  /\ PassedRecord.downMins = 5
  /\ FlagsOf(EEPROM, 0) = MODEM_RECORD_IN_PROGRESS

\* the cursors on the first byte of a slot
SlotCursors == {s * RECORD_SIZE : s \in Slots}

\* C12: when no slot is IN_PROGRESS, completeLogEntry seals its record into
\* slot 0 and starts the new IN_PROGRESS record in slot 1, whatever the
\* cursor and the flags of the other slots were: on such a ring its search
\* leaves the cursor at 0 from every cursor, and the call that has returned
\* has written slots 0 and 1.
C12_NoInProgressSealsSlotZero ==
  /\ InProgressSlots(EEPROM) = {} =>
        \A c \in SlotCursors : completeLogEntryIndex(EEPROM, c) = 0
  /\ (last.op = "completeLogEntry" /\ before.inProgress = {}) =>
    /\ before.idx = 0
    /\ FlagsOf(EEPROM, 0) = MODEM_RECORD_COMPLETE
    /\ SlotRecord(EEPROM, 0) = PassedRecord
    /\ FlagsOf(EEPROM, 1) = MODEM_RECORD_IN_PROGRESS
    /\ SlotRecord(EEPROM, 1) = [PassedRecord EXCEPT !.downMins = 0]
    /\ modemRecordIndex = RECORD_SIZE
    /\ before.written \subseteq (SlotAddrs(0) \cup SlotAddrs(1))

\* completeLogEntry has returned after being called on a ring with no
\* IN_PROGRESS slot and every slot COMPLETE
C12_Witness ==
  /\ last.op = "completeLogEntry"
  /\ before.inProgress = {}
  /\ before.complete = Slots
  /\ FlagsOf(EEPROM, 1) = MODEM_RECORD_IN_PROGRESS

Min(S) == CHOOSE x \in S : \A y \in S : x <= y

\* C13: when a slot is IN_PROGRESS (p, the first such slot from slot 0),
\* setEEPROMUptimeStats writes only bytes 0-5 and the flags byte of slot p,
\* leaves slot p flagged IN_PROGRESS holding the passed record, leaves the
\* flags of every slot and so the number of COMPLETE slots as they were, and
\* leaves the cursor at p.
C13_OverwritesInProgressSlot ==
  (last.op = "setEEPROMUptimeStats" /\ before.inProgress # {}) =>
    LET p == Min(before.inProgress)
    IN  /\ before.written \subseteq (SlotAddrs(p) \ {p * RECORD_SIZE + 6})
        /\ FlagsOf(EEPROM, p) = MODEM_RECORD_IN_PROGRESS
        /\ SlotRecord(EEPROM, p) = PassedRecord
        /\ CompleteSlots(EEPROM) = before.complete
        /\ Cardinality(CompleteSlots(EEPROM)) = Cardinality(before.complete)
        /\ InProgressSlots(EEPROM) = before.inProgress
        /\ modemRecordIndex = p * RECORD_SIZE
        /\ modemRecordIndex # NextIndex(p * RECORD_SIZE)

\* setEEPROMUptimeStats has returned after overwriting the record in
\* progress in the last slot of a ring that has COMPLETE slots
C13_Witness ==
  /\ last.op = "setEEPROMUptimeStats"
  /\ before.inProgress = {NumRecords - 1}
  /\ before.complete # {}
  /\ SlotRecord(EEPROM, NumRecords - 1).downMins = 5

\* C14: when no slot is IN_PROGRESS, setEEPROMUptimeStats writes its record
\* into slot 0 and flags slot 0 IN_PROGRESS, also when slot 0 was COMPLETE,
\* and writes to no other slot.
C14_NoInProgressWritesSlotZero ==
  (last.op = "setEEPROMUptimeStats" /\ before.inProgress = {}) =>
    /\ before.idx = 0
    /\ before.written \subseteq SlotAddrs(0)
    /\ FlagsOf(EEPROM, 0) = MODEM_RECORD_IN_PROGRESS
    /\ SlotRecord(EEPROM, 0) = PassedRecord
    /\ CompleteSlots(EEPROM) = before.complete \ {0}
    /\ InProgressSlots(EEPROM) = {0}

\* setEEPROMUptimeStats has returned after overwriting a COMPLETE slot 0 of
\* a ring with no IN_PROGRESS slot
C14_Witness ==
  /\ last.op = "setEEPROMUptimeStats"
  /\ before.inProgress = {}
  /\ 0 \in before.complete
  /\ FlagsOf(EEPROM, 0) = MODEM_RECORD_IN_PROGRESS
  /\ SlotRecord(EEPROM, 0).downMins = 5

\* C15: with every operation run to completion from the all-UNUSED ring, a
\* byte of a COMPLETE slot changes only in a step of clearLog, or in a step
\* of completeLogEntry that starts the new record in progress in the slot
\* after the one it sealed; never in a step of setEEPROMUptimeStats.
C15_CompleteSlotImmutable ==
  [][ \A s \in Slots :
        ( /\ FlagsOf(EEPROM, s) = MODEM_RECORD_COMPLETE
          /\ \E a \in SlotAddrs(s) : EEPROM'[a] # EEPROM[a] )
        => \/ pc.op = "clearLog"
           \/ /\ pc.op = "completeLogEntry"
              /\ pc.step >= 8
              /\ s = SlotAt(NextIndex(before.idx))
              /\ s \in before.complete ]_vars

\* setEEPROMUptimeStats has returned, as the last of the calls the
\* behaviour may make, on a wrapped ring whose slot 0 was and is COMPLETE
C15_Witness ==
  /\ last.op = "setEEPROMUptimeStats"
  /\ otherLeft = 0
  /\ 0 \in before.complete
  /\ 0 \in CompleteSlots(EEPROM)
  /\ callsLeft = 0

\* a <= b of two uint32_t
LeqU32(a, b) == a[1] < b[1] \/ (a[1] = b[1] /\ a[2] <= b[2])

\* the COMPLETE slots are the n slots that end at the slot before slot p
RunEndingBefore(E, p) ==
  CompleteSlots(E) =
    {(p + NumRecords - j) % NumRecords : j \in 1 .. Cardinality(CompleteSlots(E))}

\* C16: whenever the operations made from the all-UNUSED ring have all
\* returned, the COMPLETE slots form one cyclic run that ends at the slot
\* before the IN_PROGRESS slot, and (the timestamps passed growing from call
\* to call) getOldestCompletedRecord returns the COMPLETE slot with the
\* smallest timestamp.
C16_ContiguousRunOldestFirst ==
  pc = Idle =>
    /\ InProgressSlots(EEPROM) = {} => CompleteSlots(EEPROM) = {}
    /\ Cardinality(InProgressSlots(EEPROM)) <= 1
    /\ \A p \in InProgressSlots(EEPROM) : RunEndingBefore(EEPROM, p)
    /\ CompleteSlots(EEPROM) # {} =>
         \A count0 \in UninitCounts :
           LET r == getOldestCompletedRecord(EEPROM, modemRecordIndex, count0)
           IN  /\ r.ret >= 0
               /\ SlotAt(r.ret) \in CompleteSlots(EEPROM)
               /\ \A s \in CompleteSlots(EEPROM) :
                    LeqU32(SlotRecord(EEPROM, SlotAt(r.ret)).secsSince1900,
                           SlotRecord(EEPROM, s).secsSince1900)

\* C17: from a ring with at most one IN_PROGRESS slot, in every state, the
\* states between two byte writes of completeLogEntry, setEEPROMUptimeStats
\* and clearLog included, at most one slot is flagged IN_PROGRESS.
C17_NeverTwoInProgress == Cardinality(InProgressSlots(EEPROM)) <= 1

\* completeLogEntry is between its two flags writes, in a second call on a
\* ring that had an IN_PROGRESS slot: no slot is IN_PROGRESS
C17_Witness ==
  /\ pc.op = "completeLogEntry"
  /\ pc.step = 10
  /\ callsLeft = 0
  /\ before.inProgress # {}
  /\ InProgressSlots(EEPROM) = {}

\* C18: the checkpoint (setEEPROMUptimeStats called from the timer
\* interrupt) never runs between the first and the last EEPROM write of a
\* completeLogEntry call made from loop().
C18_CheckpointNotInsideFinalize ==
  ~ ( /\ last.op = "isr"
      /\ last.at.op = "completeLogEntry"
      /\ last.at.step \in 1 .. 14 )

\* what a scan may return and leave: -1 or the index of a slot, with the
\* cursor on a slot, after at most n reads of a flags byte
ReturnsWithin(r, n) ==
  /\ r.ret \in ({-1} \cup SlotCursors)
  /\ r.idx \in SlotCursors
  /\ r.reads <= n

\* the EEPROM as a power up or a writing operation has just left it: the
\* scans change no byte of it
RingAsLeft ==
  last.op \in {"restart", "completeLogEntry", "clearLog", "setEEPROMUptimeStats"}

\* C19: on every ring an operation is called on, the corrupt ones included,
\* and from every slot-aligned cursor, every scan returns, after a number of flags bytes
\* read that N bounds; completeLogEntry and setEEPROMUptimeStats are such a
\* search followed by 14 and 7 byte writes, and getEEPROMUptimeStats is one
\* pass over the slots.
C19_ScansReturn ==
  /\ RingAsLeft =>
       /\ \A c \in SlotCursors :
            /\ ReturnsWithin(getRecordInProgress(EEPROM, c), NumRecords + 2)
            /\ \A count0 \in UninitCounts :
                 ReturnsWithin(getOldestCompletedRecord(EEPROM, c, count0), 2 * NumRecords)
            /\ ReturnsWithin(getNextCompletedRecord(EEPROM, c), 2)
            /\ ReturnsWithin(getNewestCompletedRecord(EEPROM, c), 2 * NumRecords + 5)
            /\ ReturnsWithin(getIndexOfPrevCompletedRecord(EEPROM, c), 1)
            /\ completeLogEntryIndex(EEPROM, c) \in SlotCursors
       /\ setEEPROMUptimeStatsIndex(EEPROM) \in SlotCursors
       /\ setEEPROMUptimeStatsReads(EEPROM) <= NumRecords
       /\ getEEPROMUptimeStatsReads(EEPROM, 0) <= NumRecords
       /\ Len(getEEPROMUptimeStats(EEPROM, EEPROMBlock)) = RECORD_SIZE
  /\ pc.op = "completeLogEntry" => pc.step \in 0 .. 14
  /\ pc.op = "setEEPROMUptimeStats" => pc.step \in 0 .. 6
  /\ ~RingAsLeft /\ pc = Idle =>
       /\ last.ret \in ({-1} \cup SlotCursors)
       /\ getRecordInProgress(EEPROM, modemRecordIndex).reads <= NumRecords + 2
  /\ modemRecordIndex \in SlotCursors

\* getOldestCompletedRecord has returned -1 on a ring whose slots are all
\* COMPLETE, with the cursor on the last slot
C19_Witness ==
  /\ last.op = "getOldestCompletedRecord"
  /\ last.ret = -1
  /\ CompleteSlots(EEPROM) = Slots
  /\ modemRecordIndex = (NumRecords - 1) * RECORD_SIZE

\* getRecordInProgress has returned, or completeLogEntry has made its search
\* and not yet written
AfterSearchForInProgress ==
  \/ last.op = "getRecordInProgress"
  \/ pc = [op |-> "completeLogEntry", step |-> 0]

C21_InProgressOrMinusOne ==
  last.op = "getRecordInProgress" =>
    /\ last.ret = -1 <=> InProgressSlots(EEPROM) = {}
    /\ InProgressSlots(EEPROM) # {} =>
         /\ last.ret = Min(InProgressSlots(EEPROM)) * RECORD_SIZE
         /\ modemRecordIndex = last.ret

\* getRecordInProgress has returned the lower of two IN_PROGRESS slots,
\* neither of them slot 0
C21_Witness ==
  /\ last.op = "getRecordInProgress"
  /\ Cardinality(InProgressSlots(EEPROM)) = 2
  /\ 0 \notin InProgressSlots(EEPROM)
  /\ last.ret = Min(InProgressSlots(EEPROM)) * RECORD_SIZE

\* the first COMPLETE slot met walking forward, with wraparound, from the
\* slot after slot p (p itself is met last)
FirstCompleteAfter(E, p) ==
  LET d == Min({j \in 1 .. NumRecords :
                  FlagsOf(E, (p + j) % NumRecords) = MODEM_RECORD_COMPLETE})
  IN  (p + d) % NumRecords

\* C22: getOldestCompletedRecord returns -1 whenever no slot is
\* IN_PROGRESS and whenever no slot is COMPLETE; otherwise it returns, and
\* sets the cursor to, the first COMPLETE slot met walking forward with
\* wraparound from the (lowest) IN_PROGRESS slot.
C22_OldestOrMinusOne ==
  last.op = "getOldestCompletedRecord" =>
    IF InProgressSlots(EEPROM) = {} \/ CompleteSlots(EEPROM) = {}
      THEN last.ret = -1
      ELSE /\ last.ret = FirstCompleteAfter(EEPROM, Min(InProgressSlots(EEPROM))) * RECORD_SIZE
           /\ modemRecordIndex = last.ret

\* the slot after and the slot before the slot the cursor idx is on
SlotAfter(idx) == (SlotAt(idx) + 1) % NumRecords

SlotBefore(idx) == (SlotAt(idx) + NumRecords - 1) % NumRecords

C24_PrevUndoesNext ==
  [][ /\ last'.op = "getIndexOfPrevCompletedRecord" =>
           IF FlagsOf(EEPROM, SlotBefore(modemRecordIndex)) = MODEM_RECORD_COMPLETE
             THEN /\ last'.ret = SlotBefore(modemRecordIndex) * RECORD_SIZE
                  /\ modemRecordIndex' = last'.ret
             ELSE last'.ret = -1
      /\ \A c \in SlotCursors :
           ( /\ FlagsOf(EEPROM, SlotAt(c)) = MODEM_RECORD_COMPLETE
             /\ FlagsOf(EEPROM, SlotAfter(c)) = MODEM_RECORD_COMPLETE )
           => LET next == getIndexOfNextCompletedRecord(EEPROM, c)
                  prev == getIndexOfPrevCompletedRecord(EEPROM, next.idx)
              IN  /\ next.ret = SlotAfter(c) * RECORD_SIZE
                  /\ prev.ret = c
                  /\ prev.idx = c
      /\ ( /\ last.op = "getNextCompletedRecord"
           /\ last.ret >= 0
           /\ FlagsOf(EEPROM, SlotBefore(modemRecordIndex)) = MODEM_RECORD_COMPLETE
           /\ last'.op = "getIndexOfPrevCompletedRecord" )
         => /\ last'.ret = SlotBefore(last.ret) * RECORD_SIZE
            /\ modemRecordIndex' = last'.ret ]_vars

\* the step back has returned the last slot, from the cursor on slot 0
C24_Witness ==
  /\ last.op = "getIndexOfPrevCompletedRecord"
  /\ last.ret = (NumRecords - 1) * RECORD_SIZE
  /\ modemRecordIndex = last.ret
  /\ FlagsOf(EEPROM, 0) = MODEM_RECORD_COMPLETE


\* C25: encoding a record and decoding the block gives the record back,
\* for timestamps and downtimes over their whole range; the block holds
\* the timestamp in its bytes 1..4 and the downtime in its bytes 5..6, most
\* significant byte first; the decoding does not depend on the spare and
\* flags bytes.
BlockBytesMSBFirst(block, rec) ==
  /\ \A k \in 1..6 : block[k] \in 0..255
  /\ rec.secsSince1900 = UInt32(block[1] * 256 + block[2], block[3] * 256 + block[4])
  /\ rec.downMins = block[5] * 256 + block[6]

C25_CodecRoundTrip ==
  [][ /\ last'.op = "convertToEEPROMBlock" => BlockBytesMSBFirst(EEPROMBlock', modem)
      /\ (last.op = "convertToEEPROMBlock" /\ last'.op = "convertFromEEPROMBlock")
            => modem' = modem
      /\ last'.op = "convertFromEEPROMBlock"
            => \A sp \in FlagValues, fl \in FlagValues :
                 convertFromEEPROMBlock([EEPROMBlock EXCEPT ![7] = sp, ![8] = fl]) = modem'
    ]_vars

\* a record whose every byte differs from its neighbours has been encoded
\* and decoded again
C25_Witness ==
  /\ last.op = "convertFromEEPROMBlock"
  /\ modem = [secsSince1900 |-> UInt32(32768, 255), downMins |-> 256]
  /\ EEPROMBlock[1] = 128 /\ EEPROMBlock[4] = 255 /\ EEPROMBlock[5] = 1
  /\ EEPROMBlock[8] = MODEM_RECORD_COMPLETE


\* C26: on a ring of 4 slots starting empty, after completeLogEntry with
\* A (100 s, 0 min) and then with B (200 s, 5 min), slot 0 is COMPLETE and
\* holds A, slot 1 is COMPLETE and holds B, slot 2 is IN_PROGRESS with
\* 200 s and 0 min, getOldestCompletedRecord returns slot 0 and
\* getNewestCompletedRecord returns slot 1.
RecordA == [secsSince1900 |-> UInt32(0, 100), downMins |-> 0]

RecordB == [secsSince1900 |-> UInt32(0, 200), downMins |-> 5]

AfterAThenB ==
  /\ NumRecords = 4
  /\ OnlyCompleteCalls
  /\ CallsMade = 2
  /\ sealed[0] = [n |-> 1, rec |-> RecordA]
  /\ sealed[1] = [n |-> 2, rec |-> RecordB]

SlotsAfterAThenB ==
  /\ FlagsOf(EEPROM, 0) = MODEM_RECORD_COMPLETE /\ SlotRecord(EEPROM, 0) = RecordA
  /\ FlagsOf(EEPROM, 1) = MODEM_RECORD_COMPLETE /\ SlotRecord(EEPROM, 1) = RecordB
  /\ FlagsOf(EEPROM, 2) = MODEM_RECORD_IN_PROGRESS
  /\ SlotRecord(EEPROM, 2) = [secsSince1900 |-> UInt32(0, 200), downMins |-> 0]

C26_TwoOutages ==
  AfterAThenB =>
    /\ SlotsAfterAThenB
    /\ \A count0 \in UninitCounts :
         getOldestCompletedRecord(EEPROM, modemRecordIndex, count0).ret = 0
    /\ getNewestCompletedRecord(EEPROM, modemRecordIndex).ret = RECORD_SIZE


\* C27: a restart after setEEPROMUptimeStats has stored the working record
\* r restores it: getEEPROMUptimeStats and convertFromEEPROMBlock leave the
\* timestamp and the downtime of r in the working record; a restart on a
\* ring with no IN_PROGRESS slot leaves timestamp 0 and downtime 0.
C27_RestartRestoresUptime ==
  [][ /\ (last.op = "setEEPROMUptimeStats" /\ last'.op = "restart") => modem' = modem
      /\ (last'.op = "restart" /\ InProgressSlots(EEPROM) = {})
            => modem' = [secsSince1900 |-> UInt32(0, 0), downMins |-> 0]
    ]_vars

\* record B was stored in the last slot, the only one IN_PROGRESS, and the
\* restart that followed has read it back
C27_Witness ==
  /\ last.op = "restart"
  /\ last.at = Idle
  /\ before.written = SlotAddrs(NumRecords - 1) \ {(NumRecords - 1) * RECORD_SIZE + 6}
  /\ InProgressSlots(EEPROM) = {NumRecords - 1}
  /\ modem = RecordB

\* C28: the constructor, getDataFromIndex, the five scans,
\* getEEPROMUptimeStats and dumpEEPROM write no EEPROM byte; dumpEEPROM and
\* getEEPROMUptimeStats leave the cursor unchanged; a restart, which runs
\* the constructor and setup, leaves every byte of the ring unchanged.
Observers ==
  { "getDataFromIndex", "getRecordInProgress", "getOldestCompletedRecord",
    "getNextCompletedRecord", "getNewestCompletedRecord",
    "getIndexOfPrevCompletedRecord", "getEEPROMUptimeStats", "dumpEEPROM", "restart" }

C28_ObserversWriteNothing ==
  [][ /\ last'.op \in Observers => EEPROM' = EEPROM
      /\ last'.op \in {"getEEPROMUptimeStats", "dumpEEPROM"}
            => modemRecordIndex' = modemRecordIndex
    ]_vars

\* getEEPROMUptimeStats has read the record in progress of a slot the
\* cursor is not at
C28_Witness ==
  /\ last.op = "getEEPROMUptimeStats"
  /\ InProgressSlots(EEPROM) # {}
  /\ modemRecordIndex \div RECORD_SIZE \notin InProgressSlots(EEPROM)
  /\ EEPROMBlock[8] = MODEM_RECORD_IN_PROGRESS


\* C29: with the timer interrupt taken between any two EEPROM writes of
\* completeLogEntry and clearLog, at most one slot is flagged IN_PROGRESS
\* in every reachable state.
C29_AtMostOneInProgressUnderISR ==
  Cardinality(InProgressSlots(EEPROM)) <= 1


\* C30: a checkpoint of the timer interrupt between two steps of the
\* history command does not change its output: a command that found a
\* first record has printed every COMPLETE record once, in ring order from
\* the oldest, with the timestamp and the downtime its slot holds.
RECURSIVE RecordsAt(_, _)
RecordsAt(E, visited) ==
  IF visited = << >> THEN << >>
  ELSE <<SlotRecord(E, SlotAt(Head(visited)))>> \o RecordsAt(E, Tail(visited))

C30_HistoryUnchangedByCheckpoint ==
  (last.op = "history" /\ printed # << >>) =>
    printed = RecordsAt(EEPROM, Walk(EEPROM, modemRecordIndex, 0).visited)


\* C38: the value getOldestCompletedRecord returns and the cursor it leaves
\* depend on the EEPROM content only: they are the same for every value its
\* local variable count holds when the function is entered.
C38_OldestIndependentOfCount ==
  \A c1 \in UninitCounts, c2 \in UninitCounts :
    LET r1 == getOldestCompletedRecord(EEPROM, modemRecordIndex, c1)
        r2 == getOldestCompletedRecord(EEPROM, modemRecordIndex, c2)
    IN  r1.ret = r2.ret /\ r1.idx = r2.idx


\* C39: after every completed store operation, on every ring content, the
\* cursor is a multiple of RECORD_SIZE below the length of the EEPROM, and
\* every address an operation reads or writes is in 0 .. length - 1.
CursorOnRecord(idx) == idx % RECORD_SIZE = 0 /\ idx >= 0 /\ idx < EEPROMLength

\* the address of the EEPROM.update the operation under way issues next
NextWriteAddrs ==
  IF pc.op = "completeLogEntry" /\ pc.step # 7
    THEN {modemRecordIndex + completeLogEntryWrite(EEPROMBlock, pc.step)[1]}
  ELSE IF pc.op = "clearLog"
    THEN {clearLogWrite(EEPROMBlock, modemRecordIndex, pc.step)[1]}
  ELSE IF pc.op = "setEEPROMUptimeStats"
    THEN {modemRecordIndex + setEEPROMUptimeStatsWrite(EEPROMBlock, pc.step)[1]}
  ELSE {}

\* the addresses read by the operations that may be called next
NextReadAddrs ==
  getRecordInProgressAddrs(EEPROM)
    \cup UNION {getOldestCompletedRecordAddrs(EEPROM, count0) : count0 \in UninitCounts}
    \cup getNextCompletedRecordAddrs(EEPROM, modemRecordIndex)
    \cup getNewestCompletedRecordAddrs(EEPROM)
    \cup getIndexOfPrevCompletedRecordAddrs(modemRecordIndex)
    \cup setEEPROMUptimeStatsAddrs(EEPROM)
    \cup getEEPROMUptimeStatsAddrs(EEPROM)
    \cup getDataFromIndexAddrs(modemRecordIndex)
    \cup dumpEEPROMAddrs

C39_CursorAndAddressesInRange ==
  /\ last.op \in {"completeLogEntry", "clearLog", "setEEPROMUptimeStats"}
       => CursorOnRecord(modemRecordIndex)
  /\ NextWriteAddrs \subseteq Addrs
  /\ pc = Idle => NextReadAddrs \subseteq Addrs

\* completeLogEntry has sealed the record of the last slot and moved the
\* cursor round to the first
C39_Witness ==
  /\ last.op = "completeLogEntry"
  /\ before.idx = (NumRecords - 1) * RECORD_SIZE
  /\ modemRecordIndex = 0
  /\ (NumRecords - 1) * RECORD_SIZE + 7 \in before.written


\* the variables a serial command can change, but clearEEPROMFlag
CommandVars == << EEPROM, modemRecordIndex, EEPROMBlock, pc, before, sealed,
                  modem, state, retryNo, waitSecs, relayMode, relayPin,
                  simulateNoResponse, relayMillis >>

\* C36: clearLog is called only for the command 'Y' (the character read,
\* in either case) received with a clear pending, and a clear is pending
\* only while the character read before was 'C'; any other character
\* received with a clear pending ends the clear and is not executed as a
\* command, and a 'Y' received with no clear pending changes nothing.
C36_ClearOnlyOnConfirmation ==
  [][ /\ (pc.op # "clearLog" /\ pc'.op = "clearLog") =>
           (loopAt = "serial" /\ clearEEPROMFlag /\ ch = 89)
      /\ (loopAt = "top" /\ loopAt' = "serial" /\ clearEEPROMFlag) => ch = 67
      /\ (loopAt = "serial" /\ clearEEPROMFlag /\ ch # 89) =>
           (~clearEEPROMFlag' /\ UNCHANGED CommandVars)
      /\ (loopAt = "serial" /\ ~clearEEPROMFlag /\ ch = 89) =>
           (~clearEEPROMFlag' /\ UNCHANGED CommandVars)
    ]_vars

\* 'C' and 'Y' were received and clearLog has returned
C36_Witness ==
  /\ last.op = "clearLog"
  /\ ch = 89
  /\ loopAt = "top"
  /\ ~clearEEPROMFlag
  /\ FlagsOf(EEPROM, modemRecordIndex \div RECORD_SIZE) = MODEM_RECORD_IN_PROGRESS


C32_RestartAfterMaxRetries ==
  [][ /\ (state = S_MODEM_IS_ONLINE /\ state' = S_MODEM_RESTART) =>
           retryNo + 1 = MAX_RETRIES
      /\ (state = S_MODEM_IS_ONLINE /\ loopAt = "top" /\ retryNo' # retryNo
            /\ retryNo + 1 = MAX_RETRIES) =>
           state' = S_MODEM_RESTART
      /\ (loopAt = "online" /\ loopAt' = "top") => retryNo' = 0
    ]_vars


\* C31: completeLogEntry is called exactly by the polls that succeed in
\* S_LOOKING_FOR_MODEM_ONLINE, never by one that succeeds in
\* S_ARDUINO_POWERUP or S_MODEM_IS_ONLINE, and when loop() is through with
\* a successful poll the state is S_MODEM_IS_ONLINE, retryNo is 0 and
\* modem.downMins is 0.
C31_SealOnRecoveryOnly ==
  [][ /\ (loopAt = "top" /\ loopAt' \in {"sealing", "online"}) =>
           (state = S_LOOKING_FOR_MODEM_ONLINE <=> pc'.op = "completeLogEntry")
      /\ (pc.op # "completeLogEntry" /\ pc'.op = "completeLogEntry") =>
           (loopAt = "top" /\ state = S_LOOKING_FOR_MODEM_ONLINE
              /\ callsLeft' = callsLeft - 1)
      /\ callsLeft' = callsLeft \/ pc'.op = "completeLogEntry"
      /\ (loopAt = "online" /\ loopAt' = "top") =>
           (state' = S_MODEM_IS_ONLINE /\ retryNo' = 0 /\ modem'.downMins = 0)
    ]_vars


\* C33: while the state is S_LOOKING_FOR_MODEM_ONLINE and modem.waitSecs/60
\* is below MODEM_ARBITRATION_TIME, no step increments retryNo and none
\* makes the state S_MODEM_RESTART.
C33_NoRetryDuringArbitration ==
  [][ (state = S_LOOKING_FOR_MODEM_ONLINE /\ waitSecs \div 60 < MODEM_ARBITRATION_TIME) =>
        (retryNo' <= retryNo /\ state' # S_MODEM_RESTART) ]_vars


\* C34: while every poll fails and relayMode stays OUTPUT_DEFAULT, the
\* state is S_MODEM_RESTART again and again.
C34_OutageRestartsForever ==
  []<>(state = S_MODEM_RESTART)

\* after a power cycle of the modem the arbitration time has passed and
\* MAX_RETRIES failed polls are counted: the next one cycles the power again
C34_Witness ==
  /\ state = S_LOOKING_FOR_MODEM_ONLINE
  /\ waitSecs = ArbitrationSecs
  /\ retryNo = MAX_RETRIES
  /\ relayMode = OUTPUT_DEFAULT
  /\ relayPin = LOW

\* C35: whenever the state is S_MODEM_RESTART, whatever relayMode is, the
\* state becomes S_LOOKING_FOR_MODEM_ONLINE with the relay pin LOW.
C35_RestartEndsInEveryRelayMode ==
  (state = S_MODEM_RESTART) ~>
    (state = S_LOOKING_FOR_MODEM_ONLINE /\ relayPin = LOW)

====
